---------------------------- MODULE Spec2Model ----------------------------
(***************************************************************************)
(* A model of the cue planner:                                             *)
(*   - models.compute_schedule            (src/models.py)                  *)
(*   - the three greedy lane allocators   (src/room_tab.py,                *)
(*                                         src/summary_tab.py)             *)
(*   - SummaryTab._compute_all_stats and _build_report_text                *)
(*                                        (src/summary_tab.py)             *)
(*   - to_dict / from_dict of MediaCue, RoomPlan, ShowPlan (src/models.py) *)
(*   - RoomTab's add, remove and set_cues (src/room_tab.py)                *)
(*   - MainWindow's New and Open          (src/main.py)                    *)
(*   - the charts of the Summary tab and of the PDF export                 *)
(*                                        (src/summary_tab.py)             *)
(*   - MainWindow's tab bar and the Summary tab's refresh (src/main.py)    *)
(*   - MainWindow's Save and Save As, and the files on disk (src/main.py)  *)
(* Each part has its own specification (SpecSchedule, SpecLanes,           *)
(* SpecSummary, SpecDict, SpecRoom, SpecApp, SpecCharts, SpecTabs,         *)
(* SpecFile); the variables of the other parts rest at their idle values.  *)
(* Times are whole seconds.  Python lists are 0-based, sequences here are  *)
(* 1-based: index i of the source is position i+1 of the model.            *)
(***************************************************************************)
EXTENDS Integers, Sequences, FiniteSets, TLC

VARIABLES
    cues,           \* compute_schedule: the argument `cues`
    start_times,    \* compute_schedule: the returned list
    sched_pc,       \* "input" before the call, "done" after it returned
    items,          \* lane allocation: the (start, duration) items to pack
    lanes,          \* lane allocation: the returned lane index per item
    lane_pc,        \* "input", or the allocator that produced `lanes`
    rooms,          \* SummaryTab._room_tabs: one cue list per room, show order
    summary,        \* what _compute_all_stats returned
    summary_pc,     \* "input" before the call, "done" after it returned,
                    \* "reported" once the text report is built from it
    report,         \* what _build_report_text returned
    plan,           \* serialisation: the RoomPlan that to_dict is called on
    data,           \* serialisation: the mapping handed to from_dict
    loaded,         \* serialisation: what from_dict returned or raised
    dict_pc,        \* "plan", "room_dict", "cue_dict", "room_loaded", "cue_loaded"
    room_tabs,      \* MainWindow.room_tabs: the state of each RoomTab
    current_path,   \* MainWindow.current_path
    file,           \* _open_file: what the chosen file holds, once it is read
    last_op,        \* the handler that ran last, and how a Save ended
    current_tab,    \* MainWindow.tab_widget.currentIndex()
    disk            \* the show files on disk, by path

vars == <<cues, start_times, sched_pc, items, lanes, lane_pc,
          rooms, summary, summary_pc, report, plan, data, loaded, dict_pc,
          room_tabs, current_path, file, last_op, current_tab, disk>>

sched_vars   == <<cues, start_times, sched_pc>>
lane_vars    == <<items, lanes, lane_pc>>
summary_vars == <<rooms, summary, summary_pc, report>>
dict_vars    == <<plan, data, loaded, dict_pc>>
app_vars     == <<room_tabs, current_path, file, last_op>>
win_vars     == <<current_tab, disk>>

-----------------------------------------------------------------------------
(* Bounds of the model. *)

MaxCues == 3

-----------------------------------------------------------------------------
(* models.py: enumerations and MediaCue *)

AT_TIME        == "At fixed time (s)"
AFTER_PREVIOUS == "After previous cue"
AFTER_CUE      == "After cue"
\* A start_mode value that is none of the three members of StartMode; only
\* the final else-branch of compute_schedule can take it.
UNKNOWN_MODE   == "<unknown mode>"

\* Python's None for MediaCue.dependency_name.
None == "<None>"

\* Truth value of a str | None in a Python condition: None and "" are false.
Truthy(s) == s # None /\ s # ""

\* a or b, for operands that are str | None
Or(a, b) == IF Truthy(a) THEN a ELSE b

Max(a, b) == IF a >= b THEN a ELSE b

\* The scheduling fields of a MediaCue.
MediaCue(n, sm, st, d, dep) ==
    [name |-> n, start_mode |-> sm, start_time_s |-> st,
     duration_s |-> d, dependency_name |-> dep]

-----------------------------------------------------------------------------
(* models.py: compute_schedule *)

\* AT_TIME branch without the clamp: start = cue.start_time_s
AtTimeStartUnclamped(cue) == cue.start_time_s
\* AT_TIME branch: start = max(cue.start_time_s, 0.0)
AtTimeStart(cue) == Max(cue.start_time_s, 0)

\* AFTER_PREVIOUS branch adding the previous duration as it is, unclamped.
AfterPreviousStartRawDuration(cs, st, index) ==
    IF index = 1 THEN 0 ELSE st[index - 1] + cs[index - 1].duration_s
\* AFTER_PREVIOUS branch; index is the 1-based position of the cue.
AfterPreviousStart(cs, st, index) ==
    IF index = 1
    THEN 0
    ELSE LET prev_start    == st[index - 1]
             prev_duration == Max(cs[index - 1].duration_s, 0)
         IN  prev_start + prev_duration

\* for dep_index in range(index - 1, -1, -1): the first position, scanning
\* down from dep_index, whose cue is named `name`; 0 when the scan runs out.
RECURSIVE FindDependency(_, _, _)
FindDependency(cs, name, dep_index) ==
    IF dep_index < 1 THEN 0
    ELSE IF cs[dep_index].name = name THEN dep_index
    ELSE FindDependency(cs, name, dep_index - 1)

\* if cue.dependency_name is not None:
HasDependencyAnyString(cue) == cue.dependency_name # None
\* if cue.dependency_name:
HasDependency(cue) == Truthy(cue.dependency_name)

\* The same scan run upwards from the head of the list to position `last`.
RECURSIVE FindFirstFrom(_, _, _, _)
FindFirstFrom(cs, name, k, last) ==
    IF k > last THEN 0
    ELSE IF cs[k].name = name THEN k
    ELSE FindFirstFrom(cs, name, k + 1, last)

\* AFTER_CUE branch, resolving against the first cue of that name.
AfterCueStartFirstMatch(cs, st, index) ==
    LET cue       == cs[index]
        dep_index == IF HasDependency(cue)
                     THEN FindFirstFrom(cs, cue.dependency_name, 1, index - 1)
                     ELSE 0
    IN  IF dep_index = 0
        THEN 0
        ELSE st[dep_index] + Max(cs[dep_index].duration_s, 0)
\* AFTER_CUE branch, scanning down from the end of the whole list; a match
\* that is not before the cue counts as none.
AfterCueStartScanAll(cs, st, index) ==
    LET cue       == cs[index]
        dep_index == IF HasDependency(cue)
                     THEN FindDependency(cs, cue.dependency_name, Len(cs))
                     ELSE 0
    IN  IF dep_index = 0 \/ dep_index >= index
        THEN 0
        ELSE st[dep_index] + Max(cs[dep_index].duration_s, 0)
\* AFTER_CUE branch.
AfterCueStart(cs, st, index) ==
    LET cue       == cs[index]
        dep_index == IF HasDependency(cue)
                     THEN FindDependency(cs, cue.dependency_name, index - 1)
                     ELSE 0
    IN  IF dep_index = 0
        THEN 0
        ELSE LET dep_start == st[dep_index]
                 dep_dur   == Max(cs[dep_index].duration_s, 0)
             IN  dep_start + dep_dur

\* The loop body with a fallback branch that appends nothing.
ScheduleStepSkipFallback(cs, acc, index) ==
    LET cue == cs[index]
        st  == acc.start_times
        ct  == acc.current_time
    IN  IF cue.start_mode = AT_TIME
        THEN [start_times |-> Append(st, AtTimeStart(cue)),
              current_time |-> Max(ct, AtTimeStart(cue))]
        ELSE IF cue.start_mode = AFTER_PREVIOUS
        THEN [start_times |-> Append(st, AfterPreviousStart(cs, st, index)),
              current_time |-> AfterPreviousStart(cs, st, index)]
        ELSE IF cue.start_mode = AFTER_CUE
        THEN [start_times |-> Append(st, AfterCueStart(cs, st, index)),
              current_time |-> Max(ct, AfterCueStart(cs, st, index))]
        ELSE acc
\* One iteration of `for index, cue in enumerate(cues)`: acc holds
\* start_times and current_time as they are before the iteration.
ScheduleStep(cs, acc, index) ==
    LET cue == cs[index]
        st  == acc.start_times
        ct  == acc.current_time
    IN  IF cue.start_mode = AT_TIME
        THEN LET start == AtTimeStart(cue)
             IN  [start_times |-> Append(st, start), current_time |-> Max(ct, start)]
        ELSE IF cue.start_mode = AFTER_PREVIOUS
        THEN LET start == AfterPreviousStart(cs, st, index)
             IN  [start_times |-> Append(st, start), current_time |-> start]
        ELSE IF cue.start_mode = AFTER_CUE
        THEN LET start == AfterCueStart(cs, st, index)
             IN  [start_times |-> Append(st, start), current_time |-> Max(ct, start)]
        ELSE \* Fallback: treat as AT_TIME = 0
             [start_times |-> Append(st, 0), current_time |-> Max(ct, 0)]

RECURSIVE ScheduleLoop(_, _, _)
ScheduleLoop(cs, acc, index) ==
    IF index > Len(cs) THEN acc
    ELSE ScheduleLoop(cs, ScheduleStep(cs, acc, index), index + 1)

compute_schedule(cs) ==
    ScheduleLoop(cs, [start_times |-> <<>>, current_time |-> 0], 1).start_times

-----------------------------------------------------------------------------
(* The cue lists compute_schedule is applied to. *)

CueNames      == {"", "a"}
DependencyNames == {None, "", "a", "b"}
StartTimeValues == {-1, 1}
DurationValues  == {-1, 2}

\* Fields a branch does not read carry the stray values 1 and "a", which the
\* form and a loaded file can both leave behind.
ScheduleCues ==
    {MediaCue(n, AT_TIME, s, d, "a") :
        n \in CueNames, s \in StartTimeValues, d \in DurationValues}
    \cup {MediaCue(n, AFTER_PREVIOUS, 1, d, "a") :
        n \in CueNames, d \in DurationValues}
    \cup {MediaCue(n, AFTER_CUE, 1, d, dep) :
        n \in CueNames, d \in DurationValues, dep \in DependencyNames}
    \cup {MediaCue(n, UNKNOWN_MODE, 1, d, "a") :
        n \in CueNames, d \in DurationValues}

SchedIdle == cues = <<>> /\ start_times = <<>> /\ sched_pc = "idle"
LaneIdle  == items = <<>> /\ lanes = <<>> /\ lane_pc = "idle"
SummaryIdle ==
    rooms = <<>> /\ summary = <<>> /\ summary_pc = "idle" /\ report = <<>>
DictIdle  == plan = <<>> /\ data = <<>> /\ loaded = <<>> /\ dict_pc = "idle"
AppIdle   ==
    room_tabs = <<>> /\ current_path = None /\ file = <<>> /\ last_op = "idle"
WinIdle   == current_tab = 0 /\ disk = <<>>

InitSchedule ==
    /\ \E n \in 0..MaxCues : cues \in [1..n -> ScheduleCues]
    /\ start_times = <<>>
    /\ sched_pc = "input"
    /\ LaneIdle
    /\ SummaryIdle
    /\ DictIdle
    /\ AppIdle
    /\ WinIdle

\* start_times = compute_schedule(cues)
ComputeSchedule ==
    /\ sched_pc = "input"
    /\ start_times' = compute_schedule(cues)
    /\ sched_pc' = "done"
    /\ UNCHANGED <<cues, lane_vars, summary_vars, dict_vars,
                 app_vars, win_vars>>

NextSchedule == ComputeSchedule

SpecSchedule == InitSchedule /\ [][NextSchedule]_vars

-----------------------------------------------------------------------------
(* room_tab.py, summary_tab.py: the greedy lane allocators *)

\* indices.sort(key=...): list.sort is stable, so an index is put behind
\* every index already placed whose key is <= its own.
RECURSIVE InsertByKey(_, _, _)
InsertByKey(sorted, i, key) ==
    IF sorted = <<>> THEN <<i>>
    ELSE IF key[Head(sorted)] <= key[i]
         THEN <<Head(sorted)>> \o InsertByKey(Tail(sorted), i, key)
         ELSE <<i>> \o sorted

RECURSIVE SortFrom(_, _, _)
SortFrom(sorted, i, key) ==
    IF i > Len(key) THEN sorted
    ELSE SortFrom(InsertByKey(sorted, i, key), i + 1, key)

\* A sort that puts an index in front of the indices of equal key.
RECURSIVE InsertByKeyUnstable(_, _, _)
InsertByKeyUnstable(sorted, i, key) ==
    IF sorted = <<>> THEN <<i>>
    ELSE IF key[Head(sorted)] < key[i]
         THEN <<Head(sorted)>> \o InsertByKeyUnstable(Tail(sorted), i, key)
         ELSE <<i>> \o sorted
RECURSIVE SortFromUnstable(_, _, _)
SortFromUnstable(sorted, i, key) ==
    IF i > Len(key) THEN sorted
    ELSE SortFromUnstable(InsertByKeyUnstable(sorted, i, key), i + 1, key)
SortedIndicesUnstable(key) == SortFromUnstable(<<>>, 1, key)

\* indices = list(range(n)); indices.sort(key=lambda i: start[i])
SortedIndices(key) == SortFrom(<<>>, 1, key)

\* for lane_idx, lane_end in enumerate(lane_end_times): if start >= lane_end
\* The position of the first lane that is free at `start`, scanning from
\* position k; 0 when the scan runs out (placed stays False).
RECURSIVE FirstFreeLane(_, _, _)
FirstFreeLane(lane_end_times, start, k) ==
    IF k > Len(lane_end_times) THEN 0
    ELSE IF start >= lane_end_times[k] THEN k
    ELSE FirstFreeLane(lane_end_times, start, k + 1)

\* The loop body with the update of lane_end_times[lane_idx] left out.
PlaceItemNoUpdate(acc, i, start, end) ==
    LET k == FirstFreeLane(acc.lane_end_times, start, 1)
    IN  IF k # 0
        THEN [lane_end_times |-> acc.lane_end_times,
              item_lane      |-> [acc.item_lane EXCEPT ![i] = k - 1]]
        ELSE [lane_end_times |-> Append(acc.lane_end_times, end),
              item_lane      |-> [acc.item_lane EXCEPT ![i] = Len(acc.lane_end_times)]]

\* The loop body with a lane counted as free only strictly after its end.
PlaceItemStrict(acc, i, start, end) ==
    LET free == {k \in 1..Len(acc.lane_end_times) : start > acc.lane_end_times[k]}
    IN  IF free # {}
        THEN LET k == CHOOSE x \in free : \A y \in free : x <= y
             IN  [lane_end_times |-> [acc.lane_end_times EXCEPT ![k] = end],
                  item_lane      |-> [acc.item_lane EXCEPT ![i] = k - 1]]
        ELSE [lane_end_times |-> Append(acc.lane_end_times, end),
              item_lane      |-> [acc.item_lane EXCEPT ![i] = Len(acc.lane_end_times)]]

\* One iteration of `for i in indices`: lane numbers are 0-based as in the
\* source, so the lane at position k of lane_end_times is lane k - 1.
PlaceItem(acc, i, start, end) ==
    LET k == FirstFreeLane(acc.lane_end_times, start, 1)
    IN  IF k # 0
        THEN [lane_end_times |-> [acc.lane_end_times EXCEPT ![k] = end],
              item_lane      |-> [acc.item_lane EXCEPT ![i] = k - 1]]
        ELSE [lane_end_times |-> Append(acc.lane_end_times, end),
              item_lane      |-> [acc.item_lane EXCEPT ![i] = Len(acc.lane_end_times)]]

RECURSIVE LaneLoop(_, _, _, _)
LaneLoop(acc, indices, starts, ends) ==
    IF indices = <<>> THEN acc
    ELSE LET i == Head(indices)
         IN  LaneLoop(PlaceItem(acc, i, starts[i], ends[i]),
                      Tail(indices), starts, ends)

\* The body the three allocators share: starts[i], ends[i] are the interval
\* of item i; the result is item_lane.
GreedyLanes(starts, ends) ==
    LET n == Len(starts)
    IN  IF n = 0 THEN <<>>
        ELSE LaneLoop([lane_end_times |-> <<>>, item_lane |-> [i \in 1..n |-> 0]],
                      SortedIndices(starts), starts, ends).item_lane

\* TimelineView._compute_lanes over self._cues and self._start_times
TimelineView_compute_lanes(cs, st) ==
    GreedyLanes(st, [i \in 1..Len(cs) |-> st[i] + Max(cs[i].duration_s, 0)])

\* GlobalTimelineView._compute_lanes over self._items
GlobalTimelineView_compute_lanes(its) ==
    GreedyLanes([i \in 1..Len(its) |-> its[i].start_time],
                [i \in 1..Len(its) |-> its[i].start_time + Max(its[i].duration, 0)])

\* compute_lanes(intervals) of _export_pdf; an interval is <<start, end>>
compute_lanes(intervals) ==
    GreedyLanes([i \in 1..Len(intervals) |-> intervals[i][1]],
                [i \in 1..Len(intervals) |-> intervals[i][2]])

\* _export_pdf: intervals = [(it.start_time, it.start_time + max(it.duration, 0.0)) ...]
PdfIntervals(its) ==
    [i \in 1..Len(its) |->
        <<its[i].start_time, its[i].start_time + Max(its[i].duration, 0)>>]

-----------------------------------------------------------------------------
(* The items the lane allocators are applied to. *)

MaxItems == 4

ItemStarts    == {0, 1, 2}
ItemDurations == {-1, 0, 2}
LaneItems == [start_time : ItemStarts, duration : ItemDurations]

InitLanes ==
    /\ \E n \in 0..MaxItems : items \in [1..n -> LaneItems]
    /\ lanes = <<>>
    /\ lane_pc = "input"
    /\ SchedIdle
    /\ SummaryIdle
    /\ DictIdle
    /\ AppIdle
    /\ WinIdle

\* The room timeline: a cue of duration_s d shown at start s.
RoomTimelineLanes ==
    /\ lane_pc = "input"
    /\ lanes' = TimelineView_compute_lanes(
                    [i \in 1..Len(items) |-> [duration_s |-> items[i].duration]],
                    [i \in 1..Len(items) |-> items[i].start_time])
    /\ lane_pc' = "room"
    /\ UNCHANGED <<items, sched_vars, summary_vars, dict_vars,
                 app_vars, win_vars>>

GlobalTimelineLanes ==
    /\ lane_pc = "input"
    /\ lanes' = GlobalTimelineView_compute_lanes(items)
    /\ lane_pc' = "global"
    /\ UNCHANGED <<items, sched_vars, summary_vars, dict_vars,
                 app_vars, win_vars>>

PdfLanes ==
    /\ lane_pc = "input"
    /\ lanes' = compute_lanes(PdfIntervals(items))
    /\ lane_pc' = "pdf"
    /\ UNCHANGED <<items, sched_vars, summary_vars, dict_vars,
                 app_vars, win_vars>>

NextLanes == RoomTimelineLanes \/ GlobalTimelineLanes \/ PdfLanes

SpecLanes == InitLanes /\ [][NextLanes]_vars

-----------------------------------------------------------------------------
(* summary_tab.py: SummaryTab._compute_all_stats *)

\* main.py, _create_tabs: the rooms in show order.
ROOM_NAMES ==
    <<"Reception", "Aljuhfa Path", "Immersive Room", "Road to Yemen",
      "Yemen Market", "Road to North", "Levant Souq", "Fabric Room", "Mecca">>

\* A MediaCue with all its fields.
FullCue(n, ct, tt, pt, sm, st, d, dep, notes) ==
    [name |-> n, cue_type |-> ct, trigger_type |-> tt, play_type |-> pt,
     start_mode |-> sm, start_time_s |-> st, duration_s |-> d,
     dependency_name |-> dep, notes |-> notes]

GlobalTimelineItem(room_name, cue, start_time, duration) ==
    [room_name |-> room_name, cue |-> cue,
     start_time |-> start_time, duration |-> duration]

\* A Python dict is a function on the set of its keys; {} is <<>>.
\* d[k] = d.get(k, 0) + 1
CountInc(d, k) ==
    IF k \in DOMAIN d THEN [d EXCEPT ![k] = @ + 1] ELSE d @@ (k :> 1)

\* e = d.setdefault(k, {"count": 0}); e["count"] = 1
EntryIncOnce(d, k) ==
    IF k \in DOMAIN d THEN d ELSE d @@ (k :> [count |-> 1])
\* e = d.setdefault(k, {"count": 0}); e["count"] += 1
EntryInc(d, k) ==
    IF k \in DOMAIN d
    THEN [d EXCEPT ![k] = [count |-> @.count + 1]]
    ELSE d @@ (k :> [count |-> 1])

\* e = d.setdefault(ct, {"count": 0, "total_duration": 0.0});
\* e["count"] += 1; e["total_duration"] += duration
TypeEntryInc(d, ct, duration) ==
    IF ct \in DOMAIN d
    THEN [d EXCEPT ![ct] = [count |-> @.count + 1,
                            total_duration |-> @.total_duration + duration]]
    ELSE d @@ (ct :> [count |-> 1, total_duration |-> duration])

\* sorted(entries, key=lambda x: x[0]) for a list of tuples
SortedByFirst(entries) ==
    LET order == SortedIndices([i \in 1..Len(entries) |-> entries[i][1]])
    IN  [k \in 1..Len(entries) |-> entries[order[k]]]

\* room_end = max(room_end, end), with the max forgotten
RoomEndStepLast(room_end, end) == end
\* room_end = max(room_end, end)
RoomEndStep(room_end, end) == Max(room_end, end)

\* global_offset += room_end, written as a plain assignment
NextOffsetAssign(global_offset, room_end) == room_end
\* global_offset += room_end left out: every room is laid out from 0
NextOffsetKeep(global_offset, room_end) == global_offset
\* global_offset += room_end
NextOffset(global_offset, room_end) == global_offset + room_end

\* One iteration of `for cue, local_start in zip(cues, starts)`; g holds
\* the function's locals that outlive the room, r those of this room.
CueStep(g, r, room_name, cue, local_start) ==
    LET duration == Max(cue.duration_s, 0)
        end      == local_start + duration
        ct       == cue.cue_type
        tt       == cue.trigger_type
        pt       == cue.play_type
    IN  [g |-> [g EXCEPT
                 !.global_items = Append(@, GlobalTimelineItem(
                     room_name, cue, g.global_offset + local_start, duration)),
                 !.total_cues = @ + 1,
                 !.total_duration = @ + duration,
                 !.cue_type_counts = CountInc(@, ct),
                 !.trigger_counts = CountInc(@, tt),
                 !.play_counts = CountInc(@, pt)],
         r |-> [room_end         |-> RoomEndStep(r.room_end, end),
                timeline_entries |-> Append(r.timeline_entries, <<local_start, cue>>),
                by_cue_type      |-> TypeEntryInc(r.by_cue_type, ct, duration),
                by_trigger       |-> EntryInc(r.by_trigger, tt),
                by_play          |-> EntryInc(r.by_play, pt),
                notes_list       |-> IF cue.notes # ""
                                     THEN Append(r.notes_list,
                                                 <<local_start, cue.name, cue.notes>>)
                                     ELSE r.notes_list]]

RECURSIVE CueLoop(_, _, _, _, _)
CueLoop(gr, room_name, cs, starts, k) ==
    IF k > Len(cs) THEN gr
    ELSE CueLoop(CueStep(gr.g, gr.r, room_name, cs[k], starts[k]),
                 room_name, cs, starts, k + 1)

\* One iteration of `for tab in self._room_tabs`.
RoomStep(g, room_name, cs) ==
    IF cs = <<>>
    THEN \* Still record empty stats; continue
         [g EXCEPT !.room_stats = @ @@ (room_name :>
             [num_cues |-> 0, room_duration |-> 0, by_cue_type |-> <<>>,
              by_trigger |-> <<>>, by_play |-> <<>>, notes |-> <<>>,
              timeline |-> <<>>])]
    ELSE LET starts == compute_schedule(cs)
             gr     == CueLoop([g |-> g,
                                r |-> [room_end |-> 0, timeline_entries |-> <<>>,
                                       by_cue_type |-> <<>>, by_trigger |-> <<>>,
                                       by_play |-> <<>>, notes_list |-> <<>>]],
                               room_name, cs, starts, 1)
         IN  [gr.g EXCEPT
                 !.room_stats = @ @@ (room_name :>
                     [num_cues      |-> Len(cs),
                      room_duration |-> gr.r.room_end,
                      by_cue_type   |-> gr.r.by_cue_type,
                      by_trigger    |-> gr.r.by_trigger,
                      by_play       |-> gr.r.by_play,
                      notes         |-> SortedByFirst(gr.r.notes_list),
                      timeline      |-> SortedByFirst(gr.r.timeline_entries)]),
                 !.global_offset = NextOffset(@, gr.r.room_end)]

RECURSIVE RoomLoop(_, _, _)
RoomLoop(g, tabs, t) ==
    IF t > Len(tabs) THEN g
    ELSE RoomLoop(RoomStep(g, ROOM_NAMES[t], tabs[t]), tabs, t + 1)

\* _compute_all_stats reporting the summed cue time as the show's duration.
compute_all_stats_cue_time(tabs) ==
    LET g == RoomLoop([global_items |-> <<>>, room_stats |-> <<>>,
                       total_cues |-> 0, total_duration |-> 0,
                       cue_type_counts |-> <<>>, trigger_counts |-> <<>>,
                       play_counts |-> <<>>, global_offset |-> 0],
                      tabs, 1)
    IN  [global_items |-> g.global_items,
         room_stats   |-> g.room_stats,
         global_stats |-> [total_cues          |-> g.total_cues,
                           total_duration      |-> g.total_duration,
                           cue_type_counts     |-> g.cue_type_counts,
                           trigger_counts      |-> g.trigger_counts,
                           play_counts         |-> g.play_counts,
                           total_show_duration |-> g.total_duration]]
\* tabs[t] is the cue list of the t-th room tab (tab.get_cues()).
compute_all_stats(tabs) ==
    LET g == RoomLoop([global_items |-> <<>>, room_stats |-> <<>>,
                       total_cues |-> 0, total_duration |-> 0,
                       cue_type_counts |-> <<>>, trigger_counts |-> <<>>,
                       play_counts |-> <<>>, global_offset |-> 0],
                      tabs, 1)
    IN  [global_items |-> g.global_items,
         room_stats   |-> g.room_stats,
         global_stats |-> [total_cues          |-> g.total_cues,
                           total_duration      |-> g.total_duration,
                           cue_type_counts     |-> g.cue_type_counts,
                           trigger_counts      |-> g.trigger_counts,
                           play_counts         |-> g.play_counts,
                           total_show_duration |-> g.global_offset]]

-----------------------------------------------------------------------------
(* summary_tab.py: SummaryTab._build_report_text *)

\* The values one line of "Timeline for this room (local times)" prints
\* for a (start, cue) entry of stats["timeline"].
RoomTimelineLine(start, cue) ==
    [start        |-> start,
     lasting      |-> cue.duration_s,
     name         |-> cue.name,
     cue_type     |-> cue.cue_type,
     trigger_type |-> cue.trigger_type,
     play_type    |-> cue.play_type,
     start_mode   |-> cue.start_mode,
     dependency   |-> Or(cue.dependency_name, "No specific dependency")]

\* The values one line of the global timeline dump prints for an item.
GlobalTimelineLine(item) ==
    [start        |-> item.start_time,
     lasting      |-> item.duration,
     room_name    |-> item.room_name,
     name         |-> item.cue.name,
     cue_type     |-> item.cue.cue_type,
     trigger_type |-> item.cue.trigger_type,
     play_type    |-> item.cue.play_type,
     start_mode   |-> item.cue.start_mode,
     dependency   |-> Or(item.cue.dependency_name, "No specific dependency")]

\* The report as the values its lines print: the overall figures, per room
\* the figures and the timeline lines, and the global timeline lines in
\* the order of sorted(global_items, key=lambda x: x.start_time).
build_report_text(global_items, room_stats, global_stats) ==
    [total_cues     |-> global_stats.total_cues,
     total_duration |-> global_stats.total_duration,
     total_show     |-> global_stats.total_show_duration,
     rooms |-> [room_name \in DOMAIN room_stats |->
                  LET stats == room_stats[room_name]
                  IN  [num_cues |-> stats.num_cues,
                       room_dur |-> stats.room_duration,
                       timeline |-> [k \in 1..Len(stats.timeline) |->
                                       RoomTimelineLine(stats.timeline[k][1],
                                                        stats.timeline[k][2])]]],
     global_timeline |->
         LET order == SortedIndices([i \in 1..Len(global_items) |->
                                        global_items[i].start_time])
         IN  [k \in 1..Len(global_items) |->
                 GlobalTimelineLine(global_items[order[k]])]]

-----------------------------------------------------------------------------
(* The shows _compute_all_stats is applied to. *)

\* Rooms of the model: the first NumRooms of ROOM_NAMES.
NumRooms == 3
\* Cues of a show, all rooms together.
MaxShowCues == 4

SummaryCues ==
    { FullCue("a", "Audio", "Timeline (auto)", "Play once", AT_TIME, -1, 2, None, ""),
      FullCue("b", "Projection", "Sensor", "Loop", AT_TIME, 1, 2, None, "n"),
      FullCue("c", "Lighting", "Manual (operator)", "Ambient",
              AFTER_PREVIOUS, 0, 0, None, ""),
      FullCue("d", "Audio", "Sensor", "Play once", AFTER_CUE, 0, 1, "a", "m"),
      FullCue("a", "Lighting", "Timeline (auto)", "Loop", AT_TIME, 2, -1, None, "") }

RECURSIVE SumTo(_, _)
SumTo(f, n) == IF n = 0 THEN 0 ELSE SumTo(f, n - 1) + f[n]

\* The list `flat` cut into consecutive rooms of lens[1], lens[2], ... cues.
Split(flat, lens) ==
    [t \in 1..Len(lens) |->
        SubSeq(flat, SumTo(lens, t - 1) + 1, SumTo(lens, t))]

InitSummary ==
    /\ \E lens \in [1..NumRooms -> 0..MaxShowCues] :
         /\ SumTo(lens, NumRooms) <= MaxShowCues
         /\ \E flat \in [1..SumTo(lens, NumRooms) -> SummaryCues] :
              rooms = Split(flat, lens)
    /\ summary = <<>>
    /\ summary_pc = "input"
    /\ report = <<>>
    /\ SchedIdle
    /\ LaneIdle
    /\ DictIdle
    /\ AppIdle
    /\ WinIdle

\* global_items, room_stats, global_stats = self._compute_all_stats()
ComputeAllStats ==
    /\ summary_pc = "input"
    /\ summary' = compute_all_stats(rooms)
    /\ summary_pc' = "done"
    /\ UNCHANGED <<rooms, report, sched_vars, lane_vars, dict_vars,
                 app_vars, win_vars>>

\* report_text = self._build_report_text(global_items, room_stats, global_stats)
BuildReportText ==
    /\ summary_pc = "done"
    /\ report' = build_report_text(summary.global_items, summary.room_stats,
                                   summary.global_stats)
    /\ summary_pc' = "reported"
    /\ UNCHANGED <<rooms, summary, sched_vars, lane_vars, dict_vars,
                 app_vars, win_vars>>

NextSummary == ComputeAllStats \/ BuildReportText

SpecSummary == InitSummary /\ [][NextSummary]_vars

-----------------------------------------------------------------------------
(* The charts of a show: the room timelines, the global timeline and the *)
(* room bands of the exported PDF. *)

\* Cues of a charted show, all rooms together.
MaxChartCues == 3

\* _export_pdf: items_by_room[room_name], the global items of one room in
\* the order of global_items.
ItemsByRoom(global_items, room_name) ==
    SelectSeq(global_items, LAMBDA item : item.room_name = room_name)

\* _export_pdf: rooms_with_cues, as positions of the tab list.
RoomsWithCues(global_items, n) ==
    LET with_cues == {t \in 1..n : ItemsByRoom(global_items, ROOM_NAMES[t]) # <<>>}
    IN  IF with_cues = {} THEN 1..n ELSE with_cues

\* _export_pdf: room_lane_info[room_name][0] for every room of rooms_with_cues
RoomLaneInfo(global_items, n) ==
    [t \in RoomsWithCues(global_items, n) |->
        LET its == ItemsByRoom(global_items, ROOM_NAMES[t])
        IN  IF its # <<>> THEN compute_lanes(PdfIntervals(its)) ELSE <<>>]

\* _export_pdf: max_end, the latest end of the global items, 0.0 without
\* items.
MaxEnd(global_items) ==
    IF global_items = <<>> THEN 0
    ELSE LET ends == {global_items[i].start_time + Max(global_items[i].duration, 0) :
                         i \in 1..Len(global_items)}
         IN  CHOOSE m \in ends : \A x \in ends : x <= m

\* _export_pdf, page 1: the lanes of the room bands, or nothing when the
\* page only says that there is nothing to plot.
PdfPageOneLanes(global_items, n) ==
    IF global_items = <<>> \/ MaxEnd(global_items) <= 0
    THEN <<>>
    ELSE RoomLaneInfo(global_items, n)

InitCharts ==
    /\ \E lens \in [1..NumRooms -> 0..MaxChartCues] :
         /\ SumTo(lens, NumRooms) <= MaxChartCues
         /\ \E flat \in [1..SumTo(lens, NumRooms) -> SummaryCues] :
              rooms = Split(flat, lens)
    /\ summary = <<>>
    /\ summary_pc = "input"
    /\ report = <<>>
    /\ items = <<>>
    /\ lanes = <<>>
    /\ lane_pc = "input"
    /\ SchedIdle
    /\ DictIdle
    /\ AppIdle
    /\ WinIdle

\* TimelineView.set_cues of every room tab: _redraw lays the room's cues
\* out in the lanes of _compute_lanes.
DrawRoomTimelines ==
    /\ lane_pc = "input"
    /\ lanes' = [room |-> [t \in 1..Len(rooms) |->
                    TimelineView_compute_lanes(rooms[t], compute_schedule(rooms[t]))]]
    /\ lane_pc' = "room"
    /\ UNCHANGED <<rooms, summary, summary_pc, report, items, sched_vars,
                 dict_vars, app_vars, win_vars>>

\* refresh_summary: timeline_view.set_items(global_items) lays all items
\* out in the lanes of GlobalTimelineView._compute_lanes.
DrawGlobalTimeline ==
    /\ lane_pc = "room"
    /\ \E stats \in {compute_all_stats(rooms)} :
        /\ summary' = stats
        /\ report' = build_report_text(stats.global_items, stats.room_stats,
                                       stats.global_stats)
        /\ lanes' = [room   |-> lanes.room,
                     global |-> GlobalTimelineView_compute_lanes(stats.global_items)]
    /\ summary_pc' = "reported"
    /\ lane_pc' = "global"
    /\ UNCHANGED <<rooms, items, sched_vars, dict_vars, app_vars, win_vars>>

\* _export_pdf once the file is chosen and reportlab is there: page 1 draws
\* every room's items in the lanes of compute_lanes, room band by room band.
DrawPdfBands ==
    /\ lane_pc = "global"
    /\ \E stats \in {compute_all_stats(rooms)} :
        /\ summary' = stats
        /\ report' = build_report_text(stats.global_items, stats.room_stats,
                                       stats.global_stats)
        /\ lanes' = [room   |-> lanes.room,
                     global |-> GlobalTimelineView_compute_lanes(stats.global_items),
                     pdf    |-> PdfPageOneLanes(stats.global_items, Len(rooms))]
    /\ lane_pc' = "pdf"
    /\ UNCHANGED <<rooms, summary_pc, items, sched_vars, dict_vars, app_vars,
                 win_vars>>

NextCharts == DrawRoomTimelines \/ DrawGlobalTimeline \/ DrawPdfBands

SpecCharts == InitCharts /\ [][NextCharts]_vars

-----------------------------------------------------------------------------
(* models.py: to_dict / from_dict *)

\* An enumeration member is written as its display string (its .value);
\* Enum(value) raises ValueError for a value outside these sets.
CueTypeValues ==
    {"Audio", "Projection", "TV", "Lighting", "Interactive", "Activity",
     "Group Movement", "Facilitator Action"}
TriggerTypeValues == {"Timeline (auto)", "Sensor", "Manual (operator)"}
PlayTypeValues    == {"Play once", "Loop", "Ambient"}
StartModeValues   == {AT_TIME, AFTER_PREVIOUS, AFTER_CUE}

\* data.get(key, default); a dict is a function on the set of its keys.
Get(d, key, default) == IF key \in DOMAIN d THEN d[key] ELSE default

\* float(x) of a number is that number; times here are whole seconds.
float(x) == x

\* What a call returned, or the exception it raised.
Returned(value) == [raised |-> FALSE, value |-> value]
ValueError      == [raised |-> TRUE, value |-> "ValueError"]

\* to_dict leaving the start_mode key out.
MediaCue_to_dict_no_start_mode(cue) ==
    [name |-> cue.name, cue_type |-> cue.cue_type,
     trigger_type |-> cue.trigger_type, play_type |-> cue.play_type,
     start_time_s |-> cue.start_time_s, duration_s |-> cue.duration_s,
     dependency_name |-> cue.dependency_name, notes |-> cue.notes]
\* MediaCue.to_dict
MediaCue_to_dict(cue) ==
    [name |-> cue.name, cue_type |-> cue.cue_type,
     trigger_type |-> cue.trigger_type, play_type |-> cue.play_type,
     start_mode |-> cue.start_mode,
     start_time_s |-> cue.start_time_s, duration_s |-> cue.duration_s,
     dependency_name |-> cue.dependency_name, notes |-> cue.notes]

\* type_value = data.get("cue_type") or data.get("media_type") or CueType.AUDIO.value
TypeValue(d) ==
    Or(Or(Get(d, "cue_type", None), Get(d, "media_type", None)), "Audio")

\* dependency_name=data.get("dependency_name") or None
DependencyName(d) == Or(Get(d, "dependency_name", None), None)

\* from_dict reading duration_s from the key start_time_s.
MediaCue_from_dict_wrong_key(d) ==
    LET type_value   == TypeValue(d)
        trigger_type == Get(d, "trigger_type", "Timeline (auto)")
        play_type    == Get(d, "play_type", "Play once")
        start_mode   == Get(d, "start_mode", AT_TIME)
    IN  IF /\ type_value \in CueTypeValues
           /\ trigger_type \in TriggerTypeValues
           /\ play_type \in PlayTypeValues
           /\ start_mode \in StartModeValues
        THEN Returned(FullCue(Get(d, "name", ""), type_value, trigger_type,
                              play_type, start_mode,
                              float(Get(d, "start_time_s", 0)),
                              float(Get(d, "start_time_s", 0)),
                              DependencyName(d), Get(d, "notes", "")))
        ELSE ValueError
\* MediaCue.from_dict: the cue, or the ValueError of the first enumeration
\* constructor that rejects its value.
MediaCue_from_dict(d) ==
    LET type_value   == TypeValue(d)
        trigger_type == Get(d, "trigger_type", "Timeline (auto)")
        play_type    == Get(d, "play_type", "Play once")
        start_mode   == Get(d, "start_mode", AT_TIME)
    IN  IF /\ type_value \in CueTypeValues
           /\ trigger_type \in TriggerTypeValues
           /\ play_type \in PlayTypeValues
           /\ start_mode \in StartModeValues
        THEN Returned(FullCue(Get(d, "name", ""), type_value, trigger_type,
                              play_type, start_mode,
                              float(Get(d, "start_time_s", 0)),
                              float(Get(d, "duration_s", 0)),
                              DependencyName(d), Get(d, "notes", "")))
        ELSE ValueError

\* RoomPlan.to_dict
RoomPlan_to_dict(r) ==
    [name |-> r.name,
     cues |-> [i \in 1..Len(r.cues) |-> MediaCue_to_dict(r.cues[i])]]

\* RoomPlan.from_dict: a cue that raises makes the whole call raise.
RoomPlan_from_dict(d) ==
    LET cue_dicts == Get(d, "cues", <<>>)
        results   == [i \in 1..Len(cue_dicts) |-> MediaCue_from_dict(cue_dicts[i])]
    IN  IF \E i \in 1..Len(cue_dicts) : results[i].raised
        THEN ValueError
        ELSE Returned([name |-> Get(d, "name", "Room"),
                       cues |-> [i \in 1..Len(cue_dicts) |-> results[i].value]])

-----------------------------------------------------------------------------
(* The room plans and mappings to_dict and from_dict are applied to. *)

\* Cues of a room plan.
MaxPlanCues == 2

PlanNames == {"Reception", ""}

\* Cues as a program can hold them: built by the form, loaded from a file
\* or constructed directly; every start mode with every kind of
\* dependency_name, the cue of all defaults, and one of negative numbers.
PlanCues ==
    {FullCue("a", "TV", "Sensor", "Loop", sm, 1, 2, dep, "n") :
        sm \in StartModeValues, dep \in {None, "", "a"}}
    \cup {FullCue("", "Audio", "Timeline (auto)", "Play once", AT_TIME, 0, 0, None, ""),
          FullCue("b", "Facilitator Action", "Manual (operator)", "Ambient",
                  AFTER_PREVIOUS, -1, -1, "b", "")}

\* A key of a mapping: opt is <<>> for a key left out, <<v>> for value v.
Key(key, opt) == IF opt = <<>> THEN <<>> ELSE key :> opt[1]

\* The values a mapping read from a JSON file can carry under each key:
\* display strings, strings that are no display string ("" and "Bogus"),
\* and, for the dependency, null.
CueTypeOptions      == {<<>>, <<"TV">>, <<"">>, <<"Bogus">>}
MediaTypeOptions    == {<<>>, <<"Projection">>, <<"">>, <<"Bogus">>}
TriggerTypeOptions  == {<<>>, <<"Sensor">>, <<"">>, <<"Bogus">>}
PlayTypeOptions     == {<<>>, <<"Loop">>, <<"">>}
StartModeOptions    == {<<>>, <<AFTER_CUE>>, <<"">>}
StartTimeOptions    == {<<>>, <<3>>}
DurationOptions     == {<<>>, <<-1>>}
DependencyOptions   == {<<>>, <<"a">>, <<"">>, <<None>>}
NotesOptions        == {<<>>, <<"n">>}
NameOptions         == {<<>>, <<"a">>}

InitDict ==
    /\ \/ /\ \E name \in PlanNames : \E n \in 0..MaxPlanCues :
               \E cs \in [1..n -> PlanCues] : plan = [name |-> name, cues |-> cs]
          /\ data = <<>>
          /\ dict_pc = "plan"
       \/ /\ plan = <<>>
          /\ \E ct \in CueTypeOptions, mt \in MediaTypeOptions,
                tt \in TriggerTypeOptions, pt \in PlayTypeOptions,
                sm \in StartModeOptions, st \in StartTimeOptions,
                du \in DurationOptions, dep \in DependencyOptions,
                no \in NotesOptions, na \in NameOptions :
               data = Key("name", na) @@ Key("cue_type", ct)
                      @@ Key("media_type", mt) @@ Key("trigger_type", tt)
                      @@ Key("play_type", pt) @@ Key("start_mode", sm)
                      @@ Key("start_time_s", st) @@ Key("duration_s", du)
                      @@ Key("dependency_name", dep) @@ Key("notes", no)
          /\ dict_pc = "cue_dict"
    /\ loaded = <<>>
    /\ SchedIdle
    /\ LaneIdle
    /\ SummaryIdle
    /\ AppIdle
    /\ WinIdle

\* data = plan.to_dict()
RoomPlanToDict ==
    /\ dict_pc = "plan"
    /\ data' = RoomPlan_to_dict(plan)
    /\ dict_pc' = "room_dict"
    /\ UNCHANGED <<plan, loaded, sched_vars, lane_vars, summary_vars,
                 app_vars, win_vars>>

\* loaded = RoomPlan.from_dict(data)
RoomPlanFromDict ==
    /\ dict_pc = "room_dict"
    /\ loaded' = RoomPlan_from_dict(data)
    /\ dict_pc' = "room_loaded"
    /\ UNCHANGED <<plan, data, sched_vars, lane_vars, summary_vars,
                 app_vars, win_vars>>

\* loaded = MediaCue.from_dict(data)
MediaCueFromDict ==
    /\ dict_pc = "cue_dict"
    /\ loaded' = MediaCue_from_dict(data)
    /\ dict_pc' = "cue_loaded"
    /\ UNCHANGED <<plan, data, sched_vars, lane_vars, summary_vars,
                 app_vars, win_vars>>

NextDict == RoomPlanToDict \/ RoomPlanFromDict \/ MediaCueFromDict

SpecDict == InitDict /\ [][NextDict]_vars

-----------------------------------------------------------------------------
(* room_tab.py: RoomTab and its TimelineView *)

\* TimelineView.set_cues: the view keeps the list and its resolved starts.
TimelineView_set_cues(cs) ==
    [cues |-> cs, start_times |-> compute_schedule(cs)]

\* _refresh_dependency_combo: the item data of the "Depends on" dropdown,
\* None for the entry "None", then the name of every cue.
refresh_dependency_combo(cs) ==
    <<None>> \o [i \in 1..Len(cs) |-> cs[i].name]

\* A RoomTab right after __init__.
InitialTab ==
    [cues             |-> <<>>,
     timeline_view    |-> [cues |-> <<>>, start_times |-> <<>>],
     dependency_items |-> <<None>>]

\* A RoomTab whose list is cs after _refresh_table,
\* _refresh_dependency_combo and _refresh_timeline ran (the table shows
\* one row per cue and carries no state of its own).
Refreshed(cs) ==
    [cues             |-> cs,
     timeline_view    |-> TimelineView_set_cues(cs),
     dependency_items |-> refresh_dependency_combo(cs)]

\* RoomTab.set_cues(cues)
RoomTab_set_cues(tab, cs) == Refreshed(cs)

\* str.strip() on the texts the model types into the form.
Strip(text) ==
    IF text \in {"", " "} THEN ""
    ELSE IF text = " a " THEN "a"
    ELSE text

\* _on_add_cue without the call of _refresh_dependency_combo: the dropdown
\* keeps the entries it had.
RoomTab_on_add_cue_combo_kept(tab, form, dep_idx) ==
    LET name == Strip(form.name_text)
        dependency_name ==
            IF form.start_mode = AFTER_CUE
            THEN tab.dependency_items[dep_idx + 1]
            ELSE None
        cue == FullCue(name, form.cue_type, form.trigger_type, form.play_type,
                       form.start_mode, float(form.start_time),
                       float(form.duration), dependency_name,
                       Strip(form.notes_text))
    IN  IF name = ""
        THEN tab
        ELSE [Refreshed(Append(tab.cues, cue)) EXCEPT
                 !.dependency_items = tab.dependency_items]
\* _on_add_cue; form holds the widgets' values, dep_idx is
\* dependency_combo.currentIndex().
RoomTab_on_add_cue(tab, form, dep_idx) ==
    LET name == Strip(form.name_text)
        dependency_name ==
            IF form.start_mode = AFTER_CUE
            THEN tab.dependency_items[dep_idx + 1]
            ELSE None
        cue == FullCue(name, form.cue_type, form.trigger_type, form.play_type,
                       form.start_mode, float(form.start_time),
                       float(form.duration), dependency_name,
                       Strip(form.notes_text))
    IN  IF name = ""
        THEN tab
        ELSE Refreshed(Append(tab.cues, cue))

\* del cs[-1] in the place of del cs[row]
DeleteLast(cs, row) == SubSeq(cs, 1, Len(cs) - 1)
\* del cs[row], row counted from 0
DeleteAt(cs, row) ==
    [i \in 1..(Len(cs) - 1) |-> IF i <= row THEN cs[i] ELSE cs[i + 1]]

\* _on_remove_selected without the call of _refresh_timeline: the view
\* shares the list object, so it sees the deletion but keeps its starts.
RoomTab_on_remove_selected_stale(tab, row) ==
    IF row < 0 \/ row >= Len(tab.cues)
    THEN tab
    ELSE [cues             |-> DeleteAt(tab.cues, row),
          timeline_view    |-> [cues |-> DeleteAt(tab.cues, row),
                                start_times |-> tab.timeline_view.start_times],
          dependency_items |-> refresh_dependency_combo(DeleteAt(tab.cues, row))]
\* _on_remove_selected; row is table.currentRow().
RoomTab_on_remove_selected(tab, row) ==
    IF row < 0 \/ row >= Len(tab.cues)
    THEN tab
    ELSE Refreshed(DeleteAt(tab.cues, row))

-----------------------------------------------------------------------------
(* One room tab under its handlers. *)

\* Cues the form may add to a room.
MaxRoomCues == 3

\* What the form's widgets hold when Add is pressed.
Form(name_text, start_mode, start_time, duration) ==
    [name_text |-> name_text, cue_type |-> "Audio",
     trigger_type |-> "Timeline (auto)", play_type |-> "Play once",
     start_mode |-> start_mode, start_time |-> start_time,
     duration |-> duration, notes_text |-> " "]

\* The spin boxes keep their values in every start mode and allow no
\* negative number; the name may be blank or padded.
RoomForms ==
    {Form(" a ", AT_TIME, 0, 2), Form("a", AT_TIME, 1, 2),
     Form("b", AFTER_CUE, 1, 1), Form("b", AFTER_PREVIOUS, 0, 0),
     Form(" ", AT_TIME, 0, 2), Form("", AFTER_CUE, 0, 0)}

\* The lists New and Open hand to RoomTab.set_cues: none, or cues as
\* from_dict makes them (a negative duration, an empty name, a dependency
\* that names no cue).
RoomLists ==
    {<<>>,
     <<FullCue("a", "TV", "Sensor", "Loop", AT_TIME, 1, -1, None, ""),
       FullCue("", "Audio", "Timeline (auto)", "Play once", AFTER_CUE, 0, 2, "a", ""),
       FullCue("c", "Audio", "Timeline (auto)", "Play once", AFTER_CUE, 0, 1, "zz", "n")>>}

\* Add is pressed on room tab t.
OnAddCue(t, forms) ==
    /\ \E form \in forms :
       \E dep_idx \in 0..(Len(room_tabs[t].dependency_items) - 1) :
           room_tabs' = [room_tabs EXCEPT
                            ![t] = RoomTab_on_add_cue(@, form, dep_idx)]
    /\ last_op' = "add"

\* Remove is pressed on room tab t, with any row or none (-1) selected.
OnRemoveSelected(t) ==
    /\ \E row \in -1..(Len(room_tabs[t].cues) - 1) :
           room_tabs' = [room_tabs EXCEPT
                            ![t] = RoomTab_on_remove_selected(@, row)]
    /\ last_op' = "remove"

InitRoom ==
    /\ room_tabs = <<InitialTab>>
    /\ current_path = None
    /\ file = <<>>
    /\ last_op = "init"
    /\ WinIdle
    /\ SchedIdle
    /\ LaneIdle
    /\ SummaryIdle
    /\ DictIdle

RoomAddCue ==
    /\ Len(room_tabs[1].cues) < MaxRoomCues
    /\ OnAddCue(1, RoomForms)
    /\ UNCHANGED <<current_path, file, sched_vars, lane_vars, summary_vars,
                 dict_vars, win_vars>>

RoomRemoveSelected ==
    /\ OnRemoveSelected(1)
    /\ UNCHANGED <<current_path, file, sched_vars, lane_vars, summary_vars,
                 dict_vars, win_vars>>

\* tab.set_cues(cues), as New and Open call it
RoomSetCues ==
    /\ \E cs \in RoomLists :
           room_tabs' = [room_tabs EXCEPT ![1] = RoomTab_set_cues(@, cs)]
    /\ last_op' = "set_cues"
    /\ UNCHANGED <<current_path, file, sched_vars, lane_vars, summary_vars,
                 dict_vars, win_vars>>

NextRoom == RoomAddCue \/ RoomRemoveSelected \/ RoomSetCues

SpecRoom == InitRoom /\ [][NextRoom]_vars

-----------------------------------------------------------------------------
(* main.py: MainWindow, its room tabs and its summary tab *)

\* ShowPlan.from_dict: a room that raises makes the whole call raise.
ShowPlan_from_dict(d) ==
    LET room_dicts == Get(d, "rooms", <<>>)
        results    == [i \in 1..Len(room_dicts) |-> RoomPlan_from_dict(room_dicts[i])]
    IN  IF \E i \in 1..Len(room_dicts) : results[i].raised
        THEN ValueError
        ELSE Returned([rooms |-> [i \in 1..Len(room_dicts) |-> results[i].value]])

\* What the file chosen in the Open dialog gives: nothing when the dialog
\* is cancelled, an exception of open() or json.load, or the parsed JSON.
NoFile         == [chosen |-> FALSE, readable |-> FALSE, data |-> <<>>]
UnreadableFile == [chosen |-> TRUE, readable |-> FALSE, data |-> <<>>]
JsonFile(d)    == [chosen |-> TRUE, readable |-> TRUE, data |-> d]

\* tab.get_cues() of every room tab, in show order
TabCues(ts) == [t \in 1..Len(ts) |-> ts[t].cues]

\* refresh_summary: what the summary tab holds afterwards.
refresh_summary(ts) ==
    LET stats == compute_all_stats(TabCues(ts))
    IN  [summary |-> stats,
         report  |-> build_report_text(stats.global_items, stats.room_stats,
                                       stats.global_stats)]

\* The clearing loop left out: the tabs stay as they are.
ClearAllSkipped(ts) == ts
\* for tab in self.room_tabs: tab.set_cues([])
ClearAll(ts) == [t \in 1..Len(ts) |-> RoomTab_set_cues(ts[t], <<>>)]

\* tab_by_name.get(room_plan.name): the position of the tab of that name,
\* 0 for None.
TabByName(ts, name) ==
    IF \E t \in 1..Len(ts) : ROOM_NAMES[t] = name
    THEN CHOOSE t \in 1..Len(ts) : ROOM_NAMES[t] = name
    ELSE 0

\* One iteration of `for room_plan in plan.rooms`.
PopulateStep(ts, room_plan) ==
    LET t == TabByName(ts, room_plan.name)
    IN  IF t # 0
        THEN [ts EXCEPT ![t] = RoomTab_set_cues(@, room_plan.cues)]
        ELSE ts

RECURSIVE PopulateLoop(_, _, _)
PopulateLoop(ts, plan_rooms, k) ==
    IF k > Len(plan_rooms) THEN ts
    ELSE PopulateLoop(PopulateStep(ts, plan_rooms[k]), plan_rooms, k + 1)

\* The try block of _open_file: the plan, or the exception.
ReadPlan(f) ==
    IF ~f.readable THEN [raised |-> TRUE, value |-> "OSError"]
    ELSE ShowPlan_from_dict(f.data)

-----------------------------------------------------------------------------
(* The main window under its handlers. *)

\* Cues the form may add to the show, all rooms together.
MaxAppCues == 2

Paths == {"show.json", "other.json"}

AppForms ==
    {Form("a", AT_TIME, 1, 2), Form("b", AFTER_CUE, 0, 1), Form(" ", AT_TIME, 0, 0)}

\* Cue mappings of a file: two complete ones, one with nothing but a
\* negative duration, one with an unknown trigger_type, one with an empty
\* cue_type next to a legacy media_type.
CueA == MediaCue_to_dict(FullCue("a", "Audio", "Timeline (auto)", "Play once",
                                 AT_TIME, 1, 2, None, ""))
CueB == MediaCue_to_dict(FullCue("b", "TV", "Sensor", "Loop",
                                 AFTER_CUE, 0, 1, "a", "n"))
CueSparse     == [duration_s |-> -1]
CueBadTrigger == [name |-> "x", trigger_type |-> "Bogus"]
CueEmptyType  == [name |-> "y", cue_type |-> "", media_type |-> "Projection"]

RoomDict(name, cue_dicts) == [name |-> name, cues |-> cue_dicts]

\* Files as Save writes them and as an editor can leave them: rooms in any
\* order, some left out, one that is no room of the show, one named twice,
\* a bad cue behind good ones, and a file without the key "rooms".
Documents ==
    {[rooms |-> <<RoomDict("Reception", <<CueA, CueB>>),
                  RoomDict("Aljuhfa Path", <<CueSparse>>)>>],
     [rooms |-> <<RoomDict("Aljuhfa Path", <<CueB>>),
                  RoomDict("Lobby", <<CueA>>)>>],
     [rooms |-> <<RoomDict("Reception", <<CueB>>),
                  RoomDict("Aljuhfa Path", <<CueA, CueBadTrigger>>)>>],
     [rooms |-> <<RoomDict("Reception", <<CueEmptyType>>)>>],
     [rooms |-> <<RoomDict("Reception", <<CueA>>),
                  RoomDict("Reception", <<CueB, CueA>>)>>],
     <<>>}

Files == {NoFile, UnreadableFile} \cup {JsonFile(d) : d \in Documents}

TotalCues(ts) == SumTo([t \in 1..Len(ts) |-> Len(ts[t].cues)], Len(ts))

InitApp ==
    /\ room_tabs = [t \in 1..NumRooms |-> InitialTab]
    /\ current_path = None
    /\ file = NoFile
    /\ last_op = "init"
    /\ rooms = <<>>
    /\ \E shown \in {refresh_summary(room_tabs)} :
           summary = shown.summary /\ report = shown.report
    /\ summary_pc = "reported"
    /\ WinIdle
    /\ SchedIdle
    /\ LaneIdle
    /\ DictIdle

\* _new_file
NewFile ==
    /\ room_tabs' = ClearAll(room_tabs)
    /\ \E shown \in {refresh_summary(room_tabs')} :
           summary' = shown.summary /\ report' = shown.report
    /\ current_path' = None
    /\ file' = NoFile
    /\ last_op' = "new"
    /\ UNCHANGED <<rooms, summary_pc, sched_vars, lane_vars, dict_vars,
                 win_vars>>

\* _open_file when the dialog comes back with the file f, found at one of
\* `paths`
Open(f, paths) ==
    /\ file' = f
    /\ \E plan_read \in {IF f.chosen THEN ReadPlan(f) ELSE Returned(<<>>)} :
        IF ~f.chosen \/ plan_read.raised
        THEN UNCHANGED <<room_tabs, summary, report, current_path>>
        ELSE /\ room_tabs' = PopulateLoop(ClearAll(room_tabs),
                                          plan_read.value.rooms, 1)
             /\ \E shown \in {refresh_summary(room_tabs')} :
                    summary' = shown.summary /\ report' = shown.report
             /\ \E path \in paths : current_path' = path
    /\ last_op' = "open"
    /\ UNCHANGED <<rooms, summary_pc, sched_vars, lane_vars, dict_vars,
                 win_vars>>

\* _open_file, for every file the dialog can come back with
OpenFile == \E f \in Files : Open(f, Paths)

AppAddCue ==
    /\ TotalCues(room_tabs) < MaxAppCues
    /\ \E t \in 1..Len(room_tabs) : OnAddCue(t, AppForms)
    /\ file' = NoFile
    /\ UNCHANGED <<current_path, sched_vars, lane_vars, summary_vars,
                 dict_vars, win_vars>>

AppRemoveSelected ==
    /\ \E t \in 1..Len(room_tabs) : OnRemoveSelected(t)
    /\ file' = NoFile
    /\ UNCHANGED <<current_path, sched_vars, lane_vars, summary_vars,
                 dict_vars, win_vars>>

NextApp == NewFile \/ OpenFile \/ AppAddCue \/ AppRemoveSelected

SpecApp == InitApp /\ [][NextApp]_vars

-----------------------------------------------------------------------------
(* The main window with its tab bar: the room tabs at the indexes 0 to *)
(* NumRooms - 1, the Summary tab behind them. *)

\* Cues the form may add to the show while the tabs are switched.
MaxTabCues == 1

\* tab_widget.indexOf(summary_tab)
SummaryIndex == NumRooms

\* What the summary tab shows.
Shown == [summary |-> summary, report |-> report]

\* _on_tab_changed ignoring the index: nothing is refreshed.
on_tab_changed_ignored(index, ts, shown) == shown
\* _on_tab_changed(index): what the summary tab shows afterwards.
on_tab_changed(index, ts, shown) ==
    IF index = SummaryIndex THEN refresh_summary(ts) ELSE shown

\* The form on a room tab; no file holds a cue of the name "t".
TabForms == {Form("t", AT_TIME, 0, 2), Form(" ", AT_TIME, 0, 0)}

\* The cues of all tabs that the form added.
FormCues(ts) ==
    SumTo([t \in 1..Len(ts) |->
              Cardinality({k \in 1..Len(ts[t].cues) : ts[t].cues[k].name = "t"})],
          Len(ts))

\* The user brings another tab to the front: currentChanged(index).
SelectTab ==
    /\ \E index \in (0..SummaryIndex) \ {current_tab} :
        /\ current_tab' = index
        /\ \E shown \in {on_tab_changed(index, room_tabs, Shown)} :
               summary' = shown.summary /\ report' = shown.report
    /\ last_op' = "tab"
    /\ UNCHANGED <<room_tabs, current_path, file, disk, rooms, summary_pc,
                 sched_vars, lane_vars, dict_vars>>

\* "Refresh summary" is pressed; the button is on the Summary tab.
RefreshSummary ==
    /\ current_tab = SummaryIndex
    /\ \E shown \in {refresh_summary(room_tabs)} :
           summary' = shown.summary /\ report' = shown.report
    /\ last_op' = "refresh"
    /\ UNCHANGED <<room_tabs, current_path, file, win_vars, rooms, summary_pc,
                 sched_vars, lane_vars, dict_vars>>

\* Add is pressed on the room tab in front.
TabAddCue ==
    /\ current_tab < SummaryIndex
    /\ FormCues(room_tabs) < MaxTabCues
    /\ OnAddCue(current_tab + 1, TabForms)
    /\ file' = NoFile
    /\ UNCHANGED <<current_path, sched_vars, lane_vars, summary_vars,
                 dict_vars, win_vars>>

\* Remove is pressed on the room tab in front.
TabRemoveSelected ==
    /\ current_tab < SummaryIndex
    /\ OnRemoveSelected(current_tab + 1)
    /\ file' = NoFile
    /\ UNCHANGED <<current_path, sched_vars, lane_vars, summary_vars,
                 dict_vars, win_vars>>

\* The files Open is given while the tabs are switched: none, one that
\* cannot be read, a show with a cue in each of two rooms.
TabFiles ==
    {NoFile, UnreadableFile,
     JsonFile([rooms |-> <<RoomDict("Reception", <<CueA>>),
                           RoomDict("Aljuhfa Path", <<CueB>>)>>])}

TabOpenFile == \E f \in TabFiles : Open(f, {"show.json"})

\* New and Open are menu entries, at hand whichever tab is in front.
NextTabs ==
    \/ SelectTab
    \/ RefreshSummary
    \/ TabAddCue
    \/ TabRemoveSelected
    \/ NewFile
    \/ TabOpenFile

SpecTabs == InitApp /\ [][NextTabs]_vars

-----------------------------------------------------------------------------
(* main.py: Save and Save As, and the files they leave on disk *)

\* ShowPlan.to_dict
ShowPlan_to_dict(p) ==
    [rooms |-> [i \in 1..Len(p.rooms) |-> RoomPlan_to_dict(p.rooms[i])]]

\* _write_to_path with every room saved under the default name "Room".
PlanOfTabsUnnamed(ts) ==
    [rooms |-> [t \in 1..Len(ts) |-> [name |-> "Room", cues |-> ts[t].cues]]]
\* _write_to_path: plan = ShowPlan(rooms=[RoomPlan(name=tab.room_name,
\* cues=tab.get_cues()) for tab in self.room_tabs])
PlanOfTabs(ts) ==
    [rooms |-> [t \in 1..Len(ts) |-> [name |-> ROOM_NAMES[t], cues |-> ts[t].cues]]]

\* Path(path_str).suffix of the names the model types
Suffix(path) ==
    CASE path = "show.json" -> ".json"
      [] path = "show" -> ""
      [] path = "locked/other.TXT" -> ".TXT"
      [] path = "locked/other.json" -> ".json"

\* The path without its suffix
Stem(path) ==
    CASE path \in {"show.json", "show"} -> "show"
      [] path \in {"locked/other.TXT", "locked/other.json"} -> "locked/other"

\* suffix.lower() of the suffixes the model types
Lower(suffix) == IF suffix = ".TXT" THEN ".txt" ELSE suffix

\* if path.suffix.lower() != ".json": path = path.with_suffix(".json")
EnsureJson(path) ==
    IF Lower(Suffix(path)) # ".json" THEN Stem(path) \o ".json" ELSE path

\* A file as json.dump completed it: the document, and with it the cue
\* lists it was written from, kept to compare them with what Open gives
\* back.
WrittenFile(ts) ==
    [readable |-> TRUE, data |-> ShowPlan_to_dict(PlanOfTabs(ts)), cues |-> TabCues(ts)]
\* A file that open(path, "w") emptied and json.dump did not complete.
TruncatedFile == [readable |-> FALSE, data |-> <<>>, cues |-> <<>>]

\* _write_to_path: the disk afterwards. path.open can raise, which leaves
\* the disk as it is, and so can the writing, which leaves a part of the
\* document; either way the handler shows a message box and returns.
write_to_path(ts, path, outcome, files) ==
    IF outcome = "written" THEN (path :> WrittenFile(ts)) @@ files
    ELSE IF outcome = "dump failed" THEN (path :> TruncatedFile) @@ files
    ELSE files

\* What _open_file reads from the file at `path`.
FileAt(files, path) ==
    IF files[path].readable THEN JsonFile(files[path].data) ELSE UnreadableFile

-----------------------------------------------------------------------------
(* The main window with the files it saves and opens again. *)

\* Cues the form may add to the show between the saves.
MaxFileCues == 2

\* The names typed into the Save dialog: with the suffix, without it, and
\* one in a directory that cannot be written to.
SaveNames == {"show.json", "show", "locked/other.TXT"}

\* How writing to a path can end.
WriteOutcomes(path) ==
    IF Stem(path) = "locked/other" THEN {"open failed"}
    ELSE {"written", "open failed", "dump failed"}

\* The room tabs the form is used on; the other rooms stay empty.
FileTabs == {1, 2}

\* The form as it is filled in on each of them: in the first room a cue
\* "a" after a named cue, the name chosen from the dropdown, and in the
\* second a cue "b" at a time.
FileForms(t) ==
    IF t = 1 THEN {Form("a", AFTER_CUE, 1, 2)} ELSE {Form("b", AT_TIME, 1, 2)}

\* _save_file_as, as both Save As and a Save without a current path run it.
SaveAs ==
    \/ \* if not path_str: return
       /\ last_op' = "save cancelled"
       /\ UNCHANGED <<current_path, disk>>
    \/ \E name \in SaveNames : \E path \in {EnsureJson(name)} :
       \E outcome \in WriteOutcomes(path) :
           /\ disk' = write_to_path(room_tabs, path, outcome, disk)
           /\ current_path' = path
           /\ last_op' = IF outcome = "written" THEN "save" ELSE "save failed"

\* _save_file_as
SaveFileAs ==
    /\ SaveAs
    /\ file' = NoFile
    /\ UNCHANGED <<room_tabs, current_tab, sched_vars, lane_vars, summary_vars,
                 dict_vars>>

\* _save_file
SaveFile ==
    /\ IF current_path = None
       THEN SaveAs
       ELSE \E outcome \in WriteOutcomes(current_path) :
               /\ disk' = write_to_path(room_tabs, current_path, outcome, disk)
               /\ last_op' = IF outcome = "written" THEN "save" ELSE "save failed"
               /\ UNCHANGED current_path
    /\ file' = NoFile
    /\ UNCHANGED <<room_tabs, current_tab, sched_vars, lane_vars, summary_vars,
                 dict_vars>>

\* _open_file: the dialog is cancelled or comes back with a file on disk.
FileOpen ==
    \/ Open(NoFile, {None})
    \/ \E path \in DOMAIN disk : Open(FileAt(disk, path), {path})

FileAddCue ==
    /\ TotalCues(room_tabs) < MaxFileCues
    /\ \E t \in FileTabs : OnAddCue(t, FileForms(t))
    /\ file' = NoFile
    /\ UNCHANGED <<current_path, sched_vars, lane_vars, summary_vars,
                 dict_vars, win_vars>>

FileRemoveSelected ==
    /\ \E t \in FileTabs : OnRemoveSelected(t)
    /\ file' = NoFile
    /\ UNCHANGED <<current_path, sched_vars, lane_vars, summary_vars,
                 dict_vars, win_vars>>

NextFile ==
    \/ NewFile
    \/ FileOpen
    \/ SaveFile
    \/ SaveFileAs
    \/ FileAddCue
    \/ FileRemoveSelected

SpecFile == InitApp /\ [][NextFile]_vars

-----------------------------------------------------------------------------
(* Claims about compute_schedule, checked under SpecSchedule. *)

Done == sched_pc = "done"
CueIndexes == 1..Len(cues)
ClampedDuration(cue) == IF cue.duration_s < 0 THEN 0 ELSE cue.duration_s
EndOf(i) == start_times[i] + ClampedDuration(cues[i])

\* C1: a cue in mode AfterPrevious starts at 0 when it is the first cue of
\* the list, and otherwise at the resolved start of the cue right before it
\* plus that cue's duration clamped to >= 0, whatever precedes that cue.
C1_AfterPrevious ==
    Done => \A i \in CueIndexes :
        cues[i].start_mode = AFTER_PREVIOUS =>
            IF i = 1 THEN start_times[i] = 0
            ELSE start_times[i] = EndOf(i - 1)

\* An AfterPrevious cue at the third position chained off an AfterNamedCue
\* cue that itself starts late, with a negative-duration cue in the list.
C1_Witness ==
    /\ Done /\ Len(cues) = 3
    /\ cues[1].start_mode = AT_TIME /\ cues[1].duration_s = 2
    /\ cues[2].start_mode = AFTER_CUE /\ cues[2].duration_s = -1
    /\ start_times[2] = 3
    /\ cues[3].start_mode = AFTER_PREVIOUS /\ start_times[3] = 3

\* The positions below i whose cue is named as cue i's dependency.
EarlierMatches(i) ==
    {j \in 1..(i - 1) : cues[j].name = cues[i].dependency_name}
Highest(S) == CHOOSE d \in S : \A j \in S : j <= d

C3_NoEarlierMatch ==
    Done => \A i \in CueIndexes :
        (/\ cues[i].start_mode = AFTER_CUE
         /\ \/ cues[i].dependency_name = None
            \/ cues[i].dependency_name = ""
            \/ EarlierMatches(i) = {})
            => start_times[i] = 0

\* The dependency names the cue itself and a later cue that ends after 0,
\* and no earlier cue.
C3_Witness ==
    /\ Done /\ Len(cues) = 3
    /\ cues[2].start_mode = AFTER_CUE /\ cues[2].dependency_name = "a"
    /\ cues[1].name = "" /\ cues[2].name = "a" /\ cues[3].name = "a"
    /\ cues[2].duration_s = 2 /\ EndOf(3) > 0
    /\ start_times[2] = 0

\* C4: a cue in mode AtFixedTime starts at max(start_time_s, 0), in every
\* list it is part of and at every position.
C4_AtFixedTime ==
    Done => \A i \in CueIndexes :
        cues[i].start_mode = AT_TIME =>
            start_times[i] = (IF cues[i].start_time_s < 0 THEN 0
                              ELSE cues[i].start_time_s)

\* A fixed-time cue with a negative start_time_s behind a cue that ends
\* late, and one with a positive start_time_s behind it.
C4_Witness ==
    /\ Done /\ Len(cues) = 3
    /\ cues[1].start_mode = AT_TIME /\ EndOf(1) = 3
    /\ cues[2].start_mode = AT_TIME /\ cues[2].start_time_s = -1
    /\ start_times[2] = 0
    /\ cues[3].start_mode = AT_TIME /\ cues[3].start_time_s = 1
    /\ start_times[3] = 1

\* C5: compute_schedule returns one start time per cue, in input order; a
\* cue of an unknown start mode and an AfterNamedCue cue whose target is
\* missing get 0, and every other cue the start its own rule gives.
C5_OneStartPerCue ==
    Done =>
        /\ Len(start_times) = Len(cues)
        /\ \A i \in CueIndexes :
            /\ start_times[i] \in Nat
            /\ cues[i].start_mode = UNKNOWN_MODE => start_times[i] = 0
            /\ (cues[i].start_mode = AFTER_CUE /\ EarlierMatches(i) = {})
                   => start_times[i] = 0

\* A list with duplicate names, a missing target and an unknown mode in the
\* middle, followed by a cue that gets a positive start.
C5_Witness ==
    /\ Done /\ Len(cues) = 3 /\ Len(start_times) = 3
    /\ cues[1].start_mode = AFTER_CUE /\ cues[1].dependency_name = "b"
    /\ cues[2].start_mode = UNKNOWN_MODE /\ cues[2].duration_s = 2
    /\ cues[1].name = cues[2].name
    /\ cues[3].start_mode = AFTER_PREVIOUS /\ start_times[3] = 2

\* C28: the resolved start of a cue depends only on the cues at its own
\* and lower indices: compute_schedule of the first k cues is the first k
\* entries of compute_schedule of the whole list, for every k; so a cue
\* appended to a list changes the start of no cue before it.
C28_PrefixStable ==
    Done =>
        \A k \in 0..Len(cues) :
            compute_schedule(SubSeq(cues, 1, k)) = SubSeq(start_times, 1, k)

\* A list whose second cue starts after the first one by name, later than
\* 0, and whose last cue carries that name too.
C28_Witness ==
    /\ Done /\ Len(cues) = 3
    /\ cues[2].start_mode = AFTER_CUE
    /\ cues[2].dependency_name = cues[1].name
    /\ cues[3].name = cues[1].name
    /\ start_times[2] > 0
    /\ start_times[3] > 0

\* The resolver alone: no start it returns is negative, whatever the cues'
\* start_time_s, duration_s, start mode and dependency are.
C29_StartsNeverNegative ==
    Done => \A i \in CueIndexes : start_times[i] >= 0

-----------------------------------------------------------------------------
(* Claims about the lane allocators, checked under SpecLanes. *)

Packed == lane_pc \in {"room", "global", "pdf"}
ItemIndexes == 1..Len(items)
IntervalStart(i) == items[i].start_time
IntervalEnd(i) ==
    items[i].start_time + (IF items[i].duration < 0 THEN 0 ELSE items[i].duration)
Overlap(a, b) ==
    IntervalStart(a) < IntervalEnd(b) /\ IntervalStart(b) < IntervalEnd(a)
SetMax(S) == CHOOSE m \in S : \A x \in S : x <= m
NumLanes == SetMax({lanes[i] : i \in ItemIndexes}) + 1
\* The size of the largest set of pairwise overlapping intervals.
CliqueNumber ==
    SetMax({Cardinality(S) : S \in
        {T \in SUBSET ItemIndexes :
            T # {} /\ \A a \in T : \A b \in T \ {a} : Overlap(a, b)}})

\* C6: two intervals that overlap (start_a < end_b and start_b < end_a)
\* never get the same lane, in any of the three allocators.
C6_NoOverlapInLane ==
    Packed => \A a \in ItemIndexes : \A b \in ItemIndexes \ {a} :
        Overlap(a, b) => lanes[a] # lanes[b]

\* A lane is reused by a later interval while an overlapping pair is split,
\* one of the pair being a zero-length interval inside the other.
C6_Witness ==
    /\ Packed /\ Len(items) = 3
    /\ items[1] = [start_time |-> 0, duration |-> 2]
    /\ items[2] = [start_time |-> 1, duration |-> 0]
    /\ items[3] = [start_time |-> 2, duration |-> 2]
    /\ Overlap(1, 2)
    /\ lanes = <<0, 1, 0>>

\* C7 as stated: for every non-empty list the number of lanes (max lane
\* index + 1) equals the size of the largest set of pairwise overlapping
\* intervals.
C7_LanesEqualClique ==
    (Packed /\ Len(items) > 0) => NumLanes = CliqueNumber

\* Some zero-length interval comes later in the input than an interval of
\* positive length that has the same start.
ZeroLengthBehindSameStart ==
    \E a \in ItemIndexes : \E b \in ItemIndexes :
        /\ b < a
        /\ IntervalStart(a) = IntervalStart(b)
        /\ IntervalEnd(a) = IntervalStart(a)
        /\ IntervalEnd(b) > IntervalStart(b)

\* C7 as amended: for every non-empty list the number of lanes is at least
\* the size of the largest set of pairwise overlapping intervals, and equals
\* it whenever no zero-length interval comes later in the input than an
\* interval of positive length with the same start.
C7_LanesVersusClique ==
    (Packed /\ Len(items) > 0) =>
        LET clique == CliqueNumber
        IN  /\ NumLanes >= clique
            /\ ~ZeroLengthBehindSameStart => NumLanes = clique

\* A zero-length interval precedes, in the input, a positive one of the
\* same start, which then takes over its lane; two lanes are used, the size
\* of the largest set of pairwise overlapping intervals.
C7_Witness ==
    /\ Packed /\ Len(items) = 4
    /\ items[1] = [start_time |-> 1, duration |-> 0]
    /\ items[2] = [start_time |-> 1, duration |-> 2]
    /\ items[3] = [start_time |-> 0, duration |-> 2]
    /\ items[4] = [start_time |-> 2, duration |-> 2]
    /\ ~ZeroLengthBehindSameStart
    /\ CliqueNumber = 2 /\ NumLanes = 2

\* The reference first-fit procedure.  RefRank(i) is the place of item i
\* when the items are visited by ascending start, equal starts in input
\* order; RefVisit(k) is the item visited k-th.
RefRank(i) ==
    Cardinality({j \in ItemIndexes :
        \/ IntervalStart(j) < IntervalStart(i)
        \/ IntervalStart(j) = IntervalStart(i) /\ j <= i})
RefVisit(k) == CHOOSE i \in ItemIndexes : RefRank(i) = k

\* After the first k visits: ends[l] is the end time of lane l - 1 and
\* lane[i] the lane of item i (0 while i is not visited).
RECURSIVE RefAfter(_)
RefAfter(k) ==
    IF k = 0
    THEN [ends |-> <<>>, lane |-> [i \in ItemIndexes |-> 0]]
    ELSE LET before == RefAfter(k - 1)
             i      == RefVisit(k)
             free   == {l \in 1..Len(before.ends) :
                            before.ends[l] <= IntervalStart(i)}
         IN  IF free = {}
             THEN [ends |-> before.ends \o <<IntervalEnd(i)>>,
                   lane |-> [before.lane EXCEPT ![i] = Len(before.ends)]]
             ELSE LET l == CHOOSE x \in free : \A y \in free : x <= y
                  IN  [ends |-> [before.ends EXCEPT ![l] = IntervalEnd(i)],
                       lane |-> [before.lane EXCEPT ![i] = l - 1]]

\* C8: the lanes returned are those of the reference first-fit procedure
\* (ascending start, equal starts in input order, lowest lane whose end is
\* <= the start, else a new lane with the next index), whichever allocator
\* ran; so the same input always gets the same lanes.
C8_FirstFitReference ==
    Packed => lanes = RefAfter(Len(items)).lane

\* Equal starts whose input order decides the lanes, and a lane that is
\* taken again exactly when it becomes free.
C8_Witness ==
    /\ Packed /\ Len(items) = 3
    /\ items[1] = [start_time |-> 0, duration |-> 2]
    /\ items[2] = [start_time |-> 0, duration |-> 0]
    /\ items[3] = [start_time |-> 2, duration |-> 2]
    /\ lanes = <<0, 1, 0>>

-----------------------------------------------------------------------------
(* Claims about the global timeline, checked under SpecSummary. *)

SummaryDone == summary_pc = "done"
RoomIndexes == 1..Len(rooms)
Clamp0(d) == IF d < 0 THEN 0 ELSE d
\* The local resolved starts of every room.
LocalStarts == [t \in RoomIndexes |-> compute_schedule(rooms[t])]
\* room_end of every room, given the local starts: the latest end of the
\* room's cues, 0 without cues.
RoomEnds(local) ==
    [t \in RoomIndexes |->
        LET ends == {local[t][k] + Clamp0(rooms[t][k].duration_s) :
                        k \in 1..Len(rooms[t])}
        IN  IF ends = {} THEN 0 ELSE SetMax(ends)]
\* RunningSum(f)[t]: the sum of f over rooms 1..t.
RunningSum(f) == [t \in 0..Len(rooms) |-> SumTo(f, t)]
\* SumRoomEnds[t]: the sum of room_end over rooms 1..t.
SumRoomEnds == RunningSum(RoomEnds(LocalStarts))
\* CuesBefore[t]: the number of cues in the rooms before room t.
CuesBefore ==
    [t \in RoomIndexes |-> SumTo([u \in RoomIndexes |-> Len(rooms[u])], t - 1)]

\* C9: the entry of every cue of room N has absolute start = (sum of
\* room_end over the rooms before N) + the cue's local resolved start.
C9_AbsoluteStart ==
    SummaryDone =>
        \A local \in {LocalStarts} :
        \A sum \in {RunningSum(RoomEnds(local))} :
        \A before \in {CuesBefore} :
            \A t \in RoomIndexes : \A k \in 1..Len(rooms[t]) :
                LET entry == summary.global_items[before[t] + k]
                IN  /\ entry.room_name = ROOM_NAMES[t]
                    /\ entry.cue = rooms[t][k]
                    /\ entry.start_time = sum[t - 1] + local[t][k]

\* Two rooms of different positive room_end come before the third, whose
\* cue has a local start above 0.
C9_Witness ==
    /\ SummaryDone /\ Len(rooms) >= 3
    /\ SumRoomEnds[1] = 2 /\ SumRoomEnds[2] = 5
    /\ Len(rooms[3]) = 1 /\ LocalStarts[3][1] = 1
    /\ summary.global_items[CuesBefore[3] + 1].start_time = 6

\* C10 as stated: in a room N with room_end > 0 every entry has absolute
\* start >= the sum of room_end before N and < the sum up to and with N.
C10_StrictlyInsideRoom ==
    SummaryDone =>
        \A room_end \in {RoomEnds(LocalStarts)} :
        \A sum \in {RunningSum(room_end)} :
        \A before \in {CuesBefore} :
            \A t \in RoomIndexes :
                room_end[t] > 0 => \A k \in 1..Len(rooms[t]) :
                    LET entry == summary.global_items[before[t] + k]
                    IN  /\ entry.start_time >= sum[t - 1]
                        /\ entry.start_time < sum[t]

\* C10 as amended: in a room N with room_end > 0 every entry has absolute
\* start >= the sum of room_end before N and <= the sum up to and with N,
\* and equal to that sum only for a cue of duration <= 0 (one that starts
\* exactly when the room's last cue ends).
C10_InsideRoom ==
    SummaryDone =>
        \A room_end \in {RoomEnds(LocalStarts)} :
        \A sum \in {RunningSum(room_end)} :
        \A before \in {CuesBefore} :
            \A t \in RoomIndexes :
                room_end[t] > 0 => \A k \in 1..Len(rooms[t]) :
                    LET entry == summary.global_items[before[t] + k]
                    IN  /\ entry.start_time >= sum[t - 1]
                        /\ entry.start_time <= sum[t]
                        /\ entry.start_time = sum[t]
                               => rooms[t][k].duration_s <= 0

\* Behind a room of positive room_end, a room whose zero-duration cue
\* starts exactly when the room's last cue ends, next to one strictly inside.
C10_Witness ==
    /\ SummaryDone /\ Len(rooms) >= 2
    /\ SumRoomEnds[1] = 3 /\ SumRoomEnds[2] = 5
    /\ Len(rooms[2]) = 2
    /\ rooms[2][2].start_mode = AFTER_PREVIOUS /\ rooms[2][2].duration_s = 0
    /\ summary.global_items[CuesBefore[2] + 1].start_time = 3
    /\ summary.global_items[CuesBefore[2] + 2].start_time = 5

\* The position of a room in show order.
RoomPosition(room_name) == CHOOSE t \in 1..Len(ROOM_NAMES) : ROOM_NAMES[t] = room_name
EntryIndexes == 1..Len(summary.global_items)
EntryEnd(entry) == entry.start_time + Clamp0(entry.cue.duration_s)

\* C11: in the global timeline no entry of one room overlaps an entry of a
\* different room (never start_a < end_b and start_b < end_a, an end being
\* the absolute start plus the duration clamped to >= 0), and every entry
\* of an earlier room ends at or before the start of every entry of a later
\* room.
C11_RoomsKeptApart ==
    SummaryDone =>
        \A i \in EntryIndexes : \A j \in EntryIndexes :
            LET a == summary.global_items[i]
                b == summary.global_items[j]
            IN  a.room_name # b.room_name =>
                    /\ ~(a.start_time < EntryEnd(b) /\ b.start_time < EntryEnd(a))
                    /\ RoomPosition(a.room_name) < RoomPosition(b.room_name)
                           => EntryEnd(a) <= b.start_time

\* Two cues of the first room overlap each other; the entry of the second
\* room starts exactly where the later of them ends, and the third room has
\* an entry as well.
C11_Witness ==
    /\ SummaryDone /\ Len(rooms) >= 3
    /\ Len(rooms[1]) = 2 /\ Len(rooms[2]) = 1 /\ Len(rooms[3]) = 1
    /\ summary.global_items[1].start_time = 0
    /\ EntryEnd(summary.global_items[1]) = 2
    /\ summary.global_items[2].start_time = 1
    /\ EntryEnd(summary.global_items[2]) = 3
    /\ summary.global_items[3].room_name = ROOM_NAMES[2]
    /\ summary.global_items[3].start_time = 3
    /\ summary.global_items[4].room_name = ROOM_NAMES[3]
    /\ summary.global_items[4].start_time >= EntryEnd(summary.global_items[3])

\* C12: the global timeline has exactly one entry per cue of every room,
\* ordered by room in show order and inside a room by cue order, and the
\* reported total show duration is the sum of room_end over all rooms.
C12_OneEntryPerCue ==
    SummaryDone =>
        \A before \in {CuesBefore} :
            /\ Len(summary.global_items)
                   = SumTo([t \in RoomIndexes |-> Len(rooms[t])], Len(rooms))
            /\ \A t \in RoomIndexes : \A k \in 1..Len(rooms[t]) :
                   /\ summary.global_items[before[t] + k].room_name = ROOM_NAMES[t]
                   /\ summary.global_items[before[t] + k].cue = rooms[t][k]
            /\ summary.global_stats.total_show_duration = SumRoomEnds[Len(rooms)]

\* An empty room between two rooms with cues, two equal cues in one room,
\* and a show whose duration is not its summed cue time.
C12_Witness ==
    /\ SummaryDone /\ Len(rooms) >= 3
    /\ Len(rooms[1]) = 2 /\ rooms[1][1] = rooms[1][2]
    /\ rooms[2] = <<>> /\ Len(rooms[3]) = 2
    /\ Len(summary.global_items) = 4
    /\ summary.global_items[3].room_name = ROOM_NAMES[3]
    /\ summary.global_stats.total_show_duration
           # summary.global_stats.total_duration


-----------------------------------------------------------------------------
(* Claims about to_dict and from_dict, checked under SpecDict. *)

RoomLoaded == dict_pc = "room_loaded"
CueLoaded  == dict_pc = "cue_loaded"

\* C13 as stated: RoomPlan.from_dict(RoomPlan.to_dict(r)) has the name of r
\* and, in the same order, cues equal field for field to those of r,
\* whatever the fields hold, an absent or empty dependency_name included.
C13_RoundTripExact ==
    RoomLoaded =>
        /\ ~loaded.raised
        /\ loaded.value.name = plan.name
        /\ loaded.value.cues = plan.cues

\* What `or None` makes of a dependency_name.
EmptyToNone(dep) == IF dep = "" THEN None ELSE dep

\* C13 as amended: the round trip keeps the name and, in the same order,
\* every field of every cue, except that a dependency_name of "" comes
\* back as None.
C13_RoundTrip ==
    RoomLoaded =>
        /\ ~loaded.raised
        /\ loaded.value.name = plan.name
        /\ Len(loaded.value.cues) = Len(plan.cues)
        /\ \A i \in 1..Len(plan.cues) :
               loaded.value.cues[i] =
                   [plan.cues[i] EXCEPT !.dependency_name = EmptyToNone(@)]

\* A plan of two cues, one with dependency_name "" and one with a negative
\* duration and a real dependency, after the round trip.
C13_Witness ==
    /\ RoomLoaded /\ Len(plan.cues) = 2
    /\ plan.cues[1].dependency_name = ""
    /\ loaded.value.cues[1].dependency_name = None
    /\ plan.cues[2].dependency_name = "b" /\ plan.cues[2].duration_s = -1
    /\ loaded.value.cues[2] = plan.cues[2]

\* The enumeration keys of a cue mapping with the display strings of each.
EnumKeys == {"cue_type", "trigger_type", "play_type", "start_mode"}
EnumValues(key) ==
    IF key = "cue_type" THEN CueTypeValues
    ELSE IF key = "trigger_type" THEN TriggerTypeValues
    ELSE IF key = "play_type" THEN PlayTypeValues
    ELSE StartModeValues

\* C14 as stated: MediaCue.from_dict raises and yields no cue whenever the
\* value under cue_type, trigger_type, play_type or start_mode is present
\* and is not a display string of that enumeration, "" included.
C14_InvalidEnumRaises ==
    CueLoaded =>
        ((\E key \in EnumKeys :
             key \in DOMAIN data /\ data[key] \notin EnumValues(key))
         => loaded.raised)

\* C16 as stated: the cue type is taken from the key cue_type whenever that
\* key is present, else from media_type when that is present, else it is
\* Audio; so media_type never overrides a present cue_type.
C16_CueTypeKeyFirst ==
    CueLoaded /\ ~loaded.raised =>
        loaded.value.cue_type =
            IF "cue_type" \in DOMAIN data THEN data["cue_type"]
            ELSE IF "media_type" \in DOMAIN data THEN data["media_type"]
            ELSE "Audio"

\* The optional keys of a cue mapping that C17 lists.
DefaultOf(key) ==
    IF key = "trigger_type" THEN "Timeline (auto)"
    ELSE IF key = "play_type" THEN "Play once"
    ELSE IF key = "start_mode" THEN AT_TIME
    ELSE IF key = "dependency_name" THEN None
    ELSE IF key = "notes" THEN ""
    ELSE 0
OptionalKeys ==
    {"trigger_type", "play_type", "start_mode", "start_time_s", "duration_s",
     "dependency_name", "notes"}

\* C17 as stated: a cue made by from_dict has, for every optional key the
\* mapping lacks, the default (trigger_type Timeline, play_type PlayOnce,
\* start_mode AtFixedTime, start_time_s 0, duration_s 0, dependency_name
\* absent, notes empty), and for every optional key present the supplied
\* value.
C17_DefaultsAndSupplied ==
    CueLoaded /\ ~loaded.raised =>
        \A key \in OptionalKeys :
            loaded.value[key] = IF key \in DOMAIN data THEN data[key]
                                ELSE DefaultOf(key)

\* C17 as amended: the same, except that a supplied dependency_name of ""
\* yields dependency_name absent.
C17_Defaults ==
    CueLoaded /\ ~loaded.raised =>
        \A key \in OptionalKeys :
            loaded.value[key] =
                IF key \notin DOMAIN data THEN DefaultOf(key)
                ELSE IF key = "dependency_name" THEN EmptyToNone(data[key])
                ELSE data[key]

\* A mapping with some optional keys and without others, from which a cue
\* was made.
C17_Witness ==
    /\ CueLoaded /\ ~loaded.raised
    /\ DOMAIN data = {"name", "play_type", "duration_s", "dependency_name"}
    /\ data["dependency_name"] = "" /\ data["duration_s"] = -1
    /\ loaded.value = FullCue("a", "Audio", "Timeline (auto)", "Loop",
                              AT_TIME, 0, -1, None, "")


-----------------------------------------------------------------------------
(* Claims about the text report, checked under SpecSummary. *)

Reported == summary_pc = "reported"

\* The cues of room t that have cue type ct, as positions of rooms[t].
OfType(t, ct) == {k \in 1..Len(rooms[t]) : rooms[t][k].cue_type = ct}
RECURSIVE SumClamped(_, _)
SumClamped(t, S) ==
    IF S = {} THEN 0
    ELSE LET k == CHOOSE x \in S : TRUE
         IN  Clamp0(rooms[t][k].duration_s) + SumClamped(t, S \ {k})

\* The duration is clamped to >= 0 in room_end, in the global entries and
\* in the per-type totals.
ClampedInStats ==
    \A room_end \in {RoomEnds(LocalStarts)} :
        /\ \A i \in EntryIndexes :
               summary.global_items[i].duration
                   = Clamp0(summary.global_items[i].cue.duration_s)
        /\ \A t \in RoomIndexes :
               LET stats == summary.room_stats[ROOM_NAMES[t]]
               IN  /\ stats.room_duration = room_end[t]
                   /\ \A ct \in DOMAIN stats.by_cue_type :
                          stats.by_cue_type[ct].total_duration
                              = SumClamped(t, OfType(t, ct))

\* The durations the report prints are clamped to >= 0: those of the
\* per-room timelines and those of the global timeline.
ClampedInReport ==
    /\ \A t \in RoomIndexes :
           \A line \in {report.rooms[ROOM_NAMES[t]].timeline[k] :
                           k \in 1..Len(rooms[t])} :
               line.lasting >= 0
    /\ \A k \in 1..Len(report.global_timeline) :
           report.global_timeline[k].lasting >= 0

\* C18 as stated: every consumer of a cue's duration uses max(duration_s, 0)
\* and never a negative value; here room_end, the global entry duration,
\* the per-type duration totals and the durations listed in the per-room
\* timeline of the text report.
C18_DurationNeverNegative ==
    Reported => ClampedInStats /\ ClampedInReport

\* The part of C18 that the code meets: everything but the per-room
\* timeline of the report clamps the duration.
C18_ClampedOutsideRoomTimeline ==
    Reported =>
        /\ ClampedInStats
        /\ \A k \in 1..Len(report.global_timeline) :
               report.global_timeline[k].lasting >= 0


-----------------------------------------------------------------------------
(* Claims about a room tab, checked under SpecRoom. *)

\* C19: after any sequence of add-cue, remove-cue and set_cues on a room,
\* the timeline view holds the room's current cue list and start times
\* equal to compute_schedule of that list; so a cue whose named dependency
\* was removed is shown at the recomputed start, never at its old one.
C19_TimelineFollowsCues ==
    \A t \in 1..Len(room_tabs) :
        /\ room_tabs[t].timeline_view.cues = room_tabs[t].cues
        /\ room_tabs[t].timeline_view.start_times
               = compute_schedule(room_tabs[t].cues)

\* Right after a removal: the room's only cue names a cue a as its
\* dependency (the form offers only names of cues in the list, so there was
\* one), a is gone, and the cue is shown at 0.
C19_Witness ==
    /\ last_op = "remove" /\ Len(room_tabs[1].cues) = 1
    /\ room_tabs[1].cues[1].start_mode = AFTER_CUE
    /\ room_tabs[1].cues[1].dependency_name = "a"
    /\ room_tabs[1].timeline_view.start_times = <<0>>


\* The dropdown of every room tab holds None and then the names of the
\* tab's cues, in list order.
DropdownOffersCues ==
    \A t \in 1..Len(room_tabs) :
        room_tabs[t].dependency_items
            = <<None>> \o [k \in 1..Len(room_tabs[t].cues) |->
                              room_tabs[t].cues[k].name]

\* Tab t got one more cue at the end and kept the others.
Appended(t) ==
    /\ Len(room_tabs'[t].cues) = Len(room_tabs[t].cues) + 1
    /\ SubSeq(room_tabs'[t].cues, 1, Len(room_tabs[t].cues)) = room_tabs[t].cues

\* C25: after any sequence of add-cue, remove-cue and set_cues the
\* dependency dropdown offers exactly None followed by the names of the
\* room's current cues; and a cue that Add appends in the mode "after
\* cue" has a dependency that is absent or the name of a cue that is in
\* the list, at a lower index, when it is added.
C25_DropdownOffersCues ==
    /\ []DropdownOffersCues
    /\ [][\A t \in 1..Len(room_tabs) :
             (last_op' = "add" /\ Appended(t)) =>
                 LET n     == Len(room_tabs'[t].cues)
                     added == room_tabs'[t].cues[n]
                 IN  /\ added.start_mode # AFTER_CUE
                            => added.dependency_name = None
                     /\ \/ added.dependency_name = None
                        \/ \E k \in 1..(n - 1) :
                               room_tabs[t].cues[k].name = added.dependency_name]_vars

\* Right after an Add in the mode "after cue" that chose the entry of the
\* first cue, with the dropdown offering both cues now.
C25_Witness ==
    /\ last_op = "add" /\ Len(room_tabs[1].cues) = 2
    /\ room_tabs[1].cues[2].start_mode = AFTER_CUE
    /\ room_tabs[1].cues[2].dependency_name = room_tabs[1].cues[1].name
    /\ room_tabs[1].dependency_items = <<None, "a", "b">>

\* The rows table.currentRow() can give for tab t, the row one past the
\* list that the handler also guards against, and no row (-1).
Rows(t) == -1..Len(room_tabs[t].cues)

\* C26: Remove with a selected row r inside the list deletes exactly the
\* cue at index r and keeps all other cues in their order; with no
\* selected row or a row outside the list it leaves the list unchanged.
C26_RemoveDeletesSelected ==
    \A t \in 1..Len(room_tabs) : \A row \in Rows(t) :
        LET before == room_tabs[t].cues
            after  == RoomTab_on_remove_selected(room_tabs[t], row).cues
        IN  IF 0 <= row /\ row < Len(before)
            THEN /\ Len(after) = Len(before) - 1
                 /\ \A i \in 1..row : after[i] = before[i]
                 /\ \A i \in (row + 1)..Len(after) : after[i] = before[i + 1]
            ELSE after = before

\* After Remove took the first of three cues: the second, which the form
\* made depend on the first by name, and the third are left, in that order.
C26_Witness ==
    /\ last_op = "remove" /\ Len(room_tabs[1].cues) = 2
    /\ room_tabs[1].cues[1].name = "b"
    /\ room_tabs[1].cues[1].dependency_name = "a"
    /\ room_tabs[1].cues[2].start_mode = AFTER_PREVIOUS

-----------------------------------------------------------------------------
(* Claims about Open, checked under SpecApp. *)

\* Some cue of the document has, under an enumeration key, a value that is
\* no display string of that enumeration.
HasUnrecognizedEnum(d) ==
    \E i \in 1..Len(Get(d, "rooms", <<>>)) :
        LET cue_dicts == Get(d["rooms"][i], "cues", <<>>)
        IN  \E j \in 1..Len(cue_dicts) : \E key \in EnumKeys :
                key \in DOMAIN cue_dicts[j]
                    /\ cue_dicts[j][key] \notin EnumValues(key)

\* C15 as stated: an Open of a file that cannot be read, or of a document
\* in which some cue has an unrecognized enumeration value, changes no
\* room's cue list and leaves the current file path as it was.
C15_BadFileChangesNothing ==
    [][(/\ last_op' = "open" /\ file'.chosen
        /\ (~file'.readable \/ HasUnrecognizedEnum(file'.data)))
       => (room_tabs' = room_tabs /\ current_path' = current_path)]_vars

\* The part of C15 that the code meets: an Open whose try block raises
\* (the file cannot be read, or from_dict raises ValueError) changes no
\* room tab and leaves the current file path as it was.
C15_RaisedOpenChangesNothing ==
    [][(last_op' = "open" /\ file'.chosen /\ ReadPlan(file').raised)
       => (room_tabs' = room_tabs /\ current_path' = current_path)]_vars

OpenSucceeded == last_op = "open" /\ file.chosen /\ ~ReadPlan(file).raised
\* The positions of the document's rooms that carry the name of tab t.
RoomsNamed(plan_rooms, t) ==
    {i \in 1..Len(plan_rooms) : plan_rooms[i].name = ROOM_NAMES[t]}

\* C20 as stated: after a successful Open every room tab whose name appears
\* in the document holds exactly that document room's cues in document
\* order, and every other tab holds no cues; rooms of the document that
\* are no room of the show therefore change nothing.
C20_TabsHoldDocument ==
    OpenSucceeded =>
        \A plan_rooms \in {ReadPlan(file).value.rooms} :
        \A t \in 1..Len(room_tabs) :
            /\ \A i \in RoomsNamed(plan_rooms, t) :
                   room_tabs[t].cues = plan_rooms[i].cues
            /\ RoomsNamed(plan_rooms, t) = {} => room_tabs[t].cues = <<>>

\* C20 as amended: a tab whose name appears in the document holds the cues
\* of the last document room of that name, in document order; every other
\* tab holds no cues.
C20_TabsHoldLastOfName ==
    OpenSucceeded =>
        \A plan_rooms \in {ReadPlan(file).value.rooms} :
        \A t \in 1..Len(room_tabs) :
            IF RoomsNamed(plan_rooms, t) = {}
            THEN room_tabs[t].cues = <<>>
            ELSE room_tabs[t].cues
                     = plan_rooms[Highest(RoomsNamed(plan_rooms, t))].cues

\* After opening the file that names the second room and a room "Lobby":
\* the second tab holds the file's cue b, the first, named nowhere in the
\* file, is empty, and so is the third.
C20_Witness ==
    /\ OpenSucceeded
    /\ Len(ReadPlan(file).value.rooms) = 2
    /\ ReadPlan(file).value.rooms[2].name = "Lobby"
    /\ room_tabs[1].cues = <<>>
    /\ Len(room_tabs[2].cues) = 1 /\ room_tabs[2].cues[1].name = "b"
    /\ room_tabs[3].cues = <<>>
    /\ current_path = "other.json"

-----------------------------------------------------------------------------
(* Claims about the statistics, checked under SpecSummary. *)

\* The cues of room t whose field `field` has the value v.
Having(t, field, v) == {k \in 1..Len(rooms[t]) : rooms[t][k][field] = v}
\* The count a grouping stores for v; a value without an entry counts 0.
EntryCount(d, v) == IF v \in DOMAIN d THEN d[v].count ELSE 0
\* The sum of f over the finite set S.
RECURSIVE SumOver(_, _)
SumOver(f, S) ==
    IF S = {} THEN 0
    ELSE LET x == CHOOSE y \in S : TRUE IN f[x] + SumOver(f, S \ {x})
\* The values of `field` that occur in room t, and in the whole show.
ValuesIn(t, field) == {rooms[t][k][field] : k \in 1..Len(rooms[t])}
ValuesInShow(field) == UNION {ValuesIn(t, field) : t \in RoomIndexes}

\* A grouping of room t over `field` has an entry exactly for the values
\* that occur, each with the number of cues having it, and sums to the
\* room's number of cues.
GroupingCounts(t, d, field) ==
    /\ DOMAIN d = ValuesIn(t, field)
    /\ \A v \in DOMAIN d : d[v].count = Cardinality(Having(t, field, v))
    /\ SumOver([v \in DOMAIN d |-> d[v].count], DOMAIN d) = Len(rooms[t])

\* A global count dict over `field` holds for every value the sum of the
\* rooms' counts.
GlobalCounts(d, field, grouping) ==
    /\ DOMAIN d = ValuesInShow(field)
    /\ \A v \in DOMAIN d :
           d[v] = SumTo([t \in RoomIndexes |->
                            EntryCount(summary.room_stats[ROOM_NAMES[t]][grouping], v)],
                        Len(rooms))

\* C22: per room, every count stored for a cue type, trigger type or play
\* type is the number of the room's cues having that value, every
\* per-type total duration is the sum of max(duration_s, 0) over the
\* room's cues of that type, and each of the three groupings sums to the
\* room's number of cues; the global counts are the sums of the per-room
\* counts and the global total is the number of global timeline entries.
C22_StatisticsCount ==
    SummaryDone =>
        /\ \A t \in RoomIndexes :
               LET stats == summary.room_stats[ROOM_NAMES[t]]
               IN  /\ stats.num_cues = Len(rooms[t])
                   /\ GroupingCounts(t, stats.by_cue_type, "cue_type")
                   /\ GroupingCounts(t, stats.by_trigger, "trigger_type")
                   /\ GroupingCounts(t, stats.by_play, "play_type")
                   /\ \A ct \in DOMAIN stats.by_cue_type :
                          stats.by_cue_type[ct].total_duration
                              = SumClamped(t, OfType(t, ct))
        /\ GlobalCounts(summary.global_stats.cue_type_counts,
                        "cue_type", "by_cue_type")
        /\ GlobalCounts(summary.global_stats.trigger_counts,
                        "trigger_type", "by_trigger")
        /\ GlobalCounts(summary.global_stats.play_counts,
                        "play_type", "by_play")
        /\ summary.global_stats.total_cues = Len(summary.global_items)

\* A room with two cues of one type, one of them with a negative duration,
\* and two of one trigger type, in a show with cues in another room too.
C22_Witness ==
    /\ SummaryDone
    /\ \E t \in RoomIndexes :
           /\ \E k \in 1..Len(rooms[t]) :
                  /\ rooms[t][k].duration_s < 0
                  /\ Cardinality(OfType(t, rooms[t][k].cue_type)) >= 2
           /\ \E tt \in ValuesIn(t, "trigger_type") :
                  summary.room_stats[ROOM_NAMES[t]].by_trigger[tt].count >= 2
           /\ \E u \in RoomIndexes \ {t} : rooms[u] # <<>>

-----------------------------------------------------------------------------
(* Claims about the signs of the times, checked under SpecSummary. *)

\* The room, as a position of `rooms`, and the local start of the i-th
\* global entry: entries come room by room, cue by cue.
EntryRoom(i) == RoomPosition(summary.global_items[i].room_name)
EntryLocalStart(i) ==
    LocalStarts[EntryRoom(i)][i - CuesBefore[EntryRoom(i)]]
\* global_offset as it was when the i-th entry was made.
EntryOffset(i) == summary.global_items[i].start_time - EntryLocalStart(i)

\* C29: every start time compute_schedule returns is >= 0, also for cues
\* with a negative start_time_s or a negative duration_s; so every
\* room_end and every global offset is >= 0, and the global offset never
\* decreases from one room to the next.
C29_TimesNeverNegative ==
    SummaryDone =>
        /\ \A t \in RoomIndexes :
               LET stats == summary.room_stats[ROOM_NAMES[t]]
               IN  /\ \A k \in 1..Len(rooms[t]) : LocalStarts[t][k] >= 0
                   /\ \A k \in 1..Len(stats.timeline) : stats.timeline[k][1] >= 0
                   /\ stats.room_duration >= 0
        /\ \A i \in EntryIndexes :
               /\ summary.global_items[i].start_time >= 0
               /\ EntryOffset(i) >= 0
               /\ \A j \in EntryIndexes : j < i => EntryOffset(j) <= EntryOffset(i)
               /\ EntryOffset(i) <= summary.global_stats.total_show_duration
        /\ summary.global_stats.total_show_duration >= 0

\* A later room starts at an offset above 0 behind a room that holds a cue
\* with a negative start_time_s and a cue with a negative duration_s.
C29_Witness ==
    /\ SummaryDone
    /\ \E t \in RoomIndexes :
           /\ \E k \in 1..Len(rooms[t]) :
                  rooms[t][k].start_mode = AT_TIME /\ rooms[t][k].start_time_s < 0
           /\ \E k \in 1..Len(rooms[t]) : rooms[t][k].duration_s < 0
           /\ \E i \in EntryIndexes : EntryRoom(i) > t /\ EntryOffset(i) > 0

-----------------------------------------------------------------------------
(* Claims about the charts, checked under SpecCharts. *)

\* C30: the lane the global timeline view gives a cue, packing the entries
\* of all rooms together, is the lane the cue gets when only its own
\* room's cues are packed, in the room timeline view and in the room's
\* band of the PDF's global chart (which is drawn unless the show has
\* nothing to plot).
C30_GlobalLaneIsRoomLane ==
    lane_pc = "pdf" =>
        \A i \in EntryIndexes :
            LET t == EntryRoom(i)
                k == i - CuesBefore[t]
            IN  /\ lanes.global[i] = lanes.room[t][k]
                /\ lanes.pdf # <<>> => lanes.global[i] = lanes.pdf[t][k]

\* A show in which a room with overlapping cues, stacked on two rows,
\* stands behind another room that has cues.
C30_Witness ==
    /\ lane_pc = "pdf"
    /\ lanes.pdf # <<>>
    /\ \E i \in EntryIndexes :
           /\ lanes.global[i] = 1
           /\ EntryRoom(i) > 1
           /\ \E j \in EntryIndexes : EntryRoom(j) < EntryRoom(i)

-----------------------------------------------------------------------------
(* Claims about the cue names, checked under SpecApp. *)

\* C23: after any sequence of add-cue, remove-cue, New and Open, every cue
\* held in any room's cue list has a non-empty name.
C23_NamesNonEmpty ==
    \A t \in 1..Len(room_tabs) :
        \A k \in 1..Len(room_tabs[t].cues) : room_tabs[t].cues[k].name # ""

\* The form alone never puts an unnamed cue into a list: Add appends
\* nothing or one cue whose name is not empty.
C23_AddedNamesNonEmpty ==
    [][last_op' = "add" =>
          \A t \in 1..Len(room_tabs) :
              \/ room_tabs'[t].cues = room_tabs[t].cues
              \/ /\ Len(room_tabs'[t].cues) = Len(room_tabs[t].cues) + 1
                 /\ SubSeq(room_tabs'[t].cues, 1, Len(room_tabs[t].cues))
                        = room_tabs[t].cues
                 /\ room_tabs'[t].cues[Len(room_tabs'[t].cues)].name # ""]_vars

-----------------------------------------------------------------------------
(* Claims about the Summary tab, checked under SpecTabs. *)

\* C24: whenever the Summary tab is the selected tab, the global timeline
\* items it holds are the global timeline computed from the rooms' current
\* cue lists, after any sequence of tab switches, additions and removals
\* on room tabs, New, Open (successful or failed) and refreshes.
C24_SummaryNeverStale ==
    current_tab = SummaryIndex =>
        \A stats \in {compute_all_stats(TabCues(room_tabs))} :
            /\ summary.global_items = stats.global_items
            /\ summary = stats

\* The Summary tab has just come to the front and shows a cue that the
\* form added on a room tab while a file's cues were shown.
C24_Witness ==
    /\ current_tab = SummaryIndex /\ last_op = "tab"
    /\ Len(summary.global_items) >= 2
    /\ \E i \in 1..Len(summary.global_items) :
           summary.global_items[i].cue.name = "t"

-----------------------------------------------------------------------------
(* Claims about Save and Save As, checked under SpecFile. *)

\* C21: when writing the file fails during Save or Save As, the state in
\* memory is left as it was before the operation: every room's cue list is
\* unchanged and the current file path is unchanged (it does not become
\* the path that could not be written).
C21_FailedSaveChangesNothing ==
    [][last_op' = "save failed" =>
          /\ TabCues(room_tabs') = TabCues(room_tabs)
          /\ current_path' = current_path]_vars

\* What does hold of C21: no Save or Save As, however it ends, touches a
\* room tab or the summary, and a cancelled one keeps the path and the disk.
C21_SaveKeepsCues ==
    [][last_op' \in {"save", "save failed", "save cancelled"} =>
          /\ room_tabs' = room_tabs /\ summary' = summary
          /\ last_op' = "save cancelled" =>
                 current_path' = current_path /\ disk' = disk]_vars

\* A failed write has left the window with a current path at which there
\* is no file, or none that can be read.
C21_PathOfNoFile ==
    /\ last_op = "save failed" /\ current_path # None
    /\ current_path \notin DOMAIN disk \/ ~disk[current_path].readable

\* C27: after a successful Save and a later successful Open of that file,
\* every room holds cues equal field for field, in the same order, to those
\* it held at the time of the Save, whatever the form added and removed in
\* between.
C27_SaveOpenRestores ==
    OpenSucceeded =>
        /\ current_path \in DOMAIN disk
        /\ TabCues(room_tabs) = disk[current_path].cues

\* A file was opened that holds, in the first room, a cue that starts
\* after a cue "a" removed before the Save, and a cue in the second room.
C27_Witness ==
    /\ OpenSucceeded
    /\ Len(room_tabs[1].cues) = 1
    /\ room_tabs[1].cues[1].start_mode = AFTER_CUE
    /\ room_tabs[1].cues[1].dependency_name = "a"
    /\ Len(room_tabs[2].cues) = 1 /\ room_tabs[2].cues[1].name = "b"
    /\ room_tabs[3].cues = <<>>

=============================================================================
